---- MODULE Spec2Model ----
(***************************************************************************)
(* sanitize-dom: a recursive sanitizer for a live DOM tree.                *)
(*                                                                         *)
(* The DOM is a heap of node records.  The engine (sanitizeDom and its     *)
(* nested functions) is written in state-passing style: every function of  *)
(* the source takes the engine state `st` and returns the new one.  Names   *)
(* (tag names, attribute names, class names, regular expression sources)   *)
(* are tuples of one-character strings so that matching is computed        *)
(* character by character.                                                 *)
(***************************************************************************)
EXTENDS Integers, Sequences, FiniteSets, TLC

(***************************************************************************)
(* Bounds of the model.                                                    *)
(***************************************************************************)
\* depth of nested sanitizeNode activations at which the call stack is
\* exhausted (the engine recurses without limit; the host raises RangeError)
MaxDepth == 7
\* number of top-level calls in one behaviour
MaxCalls == 2
\* number of side-table entries the caller sets before the first call
MaxMarks == 1

(***************************************************************************)
(* Names.                                                                  *)
(***************************************************************************)
nB == <<"B">>
nI == <<"I">>
nP == <<"P">>
nBR == <<"B", "R">>
nEM == <<"E", "M">>
nLI == <<"L", "I">>
nBODY == <<"B", "O", "D", "Y">>
nTEXT == <<"T", "E", "X", "T">>
nHashText == <<"#", "t", "e", "x", "t">>
nFragment == <<"#", "f", "r", "a", "g">>
nClass == <<"c", "l", "a", "s", "s">>
nId == <<"i", "d">>
nHi == <<"h", "i">>
nOne == <<"o", "n", "e">>
nTwo == <<"t", "w", "o">>

\* String.prototype.toUpperCase on one character (the 'i' flag of RegExp
\* compares characters by their case folding)
Fold(c) ==
  CASE c = "b" -> "B" [] c = "i" -> "I" [] c = "p" -> "P" [] c = "r" -> "R"
    [] c = "e" -> "E" [] c = "m" -> "M" [] c = "l" -> "L" [] c = "o" -> "O"
    [] c = "d" -> "D" [] c = "y" -> "Y" [] c = "t" -> "T" [] c = "x" -> "X"
    [] c = "c" -> "C" [] c = "a" -> "A" [] c = "s" -> "S" [] c = "h" -> "H"
    [] c = "n" -> "N" [] c = "w" -> "W" [] c = "u" -> "U"
    [] OTHER -> c

(***************************************************************************)
(* Regular expressions.  A source string is a sequence of alternatives     *)
(* (the parts between top-level "|"), each a sequence of tokens: a         *)
(* one-character literal, ".*", "^", "$" or "[^u]".                        *)
(***************************************************************************)
RECURSIVE MatchHere(_, _, _, _)
\* the regular expression engine: tokens toks[ti..] match v starting at vi
MatchHere(toks, ti, v, vi) ==
  IF ti > Len(toks) THEN TRUE
  ELSE LET tok == toks[ti] IN
    CASE tok = "^" -> vi = 1 /\ MatchHere(toks, ti + 1, v, vi)
      [] tok = "$" -> vi = Len(v) + 1 /\ MatchHere(toks, ti + 1, v, vi)
      [] tok = ".*" -> \E k \in vi..(Len(v) + 1) : MatchHere(toks, ti + 1, v, k)
      [] tok = "[^u]" -> vi <= Len(v) /\ Fold(v[vi]) # "U"
                         /\ MatchHere(toks, ti + 1, v, vi + 1)
      [] OTHER -> vi <= Len(v) /\ Fold(v[vi]) = Fold(tok)
                  /\ MatchHere(toks, ti + 1, v, vi + 1)

\* value.match(regex) != null : an unanchored search, any alternative
StrMatch(v, regex) ==
  \E p \in 1..(Len(v) + 1) :
    \E a \in 1..Len(regex) : MatchHere(regex[a], 1, v, p)

\* new RegExp(`^${str}$`, 'i') : the anchors are concatenated to the source
\* text, so "^" lands in the first alternative and "$" in the last
compileRegex(str) ==
  [a \in 1..Len(str) |->
     (IF a = 1 THEN <<"^">> ELSE <<>>) \o str[a]
       \o (IF a = Len(str) THEN <<"$">> ELSE <<>>)]

(***************************************************************************)
(* Rule evaluation.  A spec (ParentChildSpec, TagAttributeNameSpec,        *)
(* TagClassNameSpec, FilterSpec) is a sequence of entries                  *)
(* [key |-> regex, vals |-> sequence], in property order.                  *)
(***************************************************************************)
RECURSIVE ConcatVals(_, _, _)
ConcatVals(spec, tagname, i) ==
  IF i > Len(spec) THEN <<>>
  ELSE (IF StrMatch(tagname, spec[i].key) THEN spec[i].vals ELSE <<>>)
         \o ConcatVals(spec, tagname, i + 1)

\* the values of all entries whose key matches the tag name, concatenated
getValuesForTagname(valuesByTagRegex, tagname) ==
  ConcatVals(valuesByTagRegex, tagname, 1)

matchesAny(regexesByTagname, tagname, value) ==
  LET regexes == getValuesForTagname(regexesByTagname, tagname)
  IN \E k \in 1..Len(regexes) : StrMatch(value, regexes[k])

nIMG == <<"I", "M", "G">>
nIFRAME == <<"I", "F", "R", "A", "M", "E">>
nHR == <<"H", "R">>
nINPUT == <<"I", "N", "P", "U", "T">>

optionDefaults ==
  [filters_by_tag |-> <<>>,
   remove_tags_direct |-> <<>>, remove_tags_deep |-> <<>>,
   flatten_tags_direct |-> <<>>, flatten_tags_deep |-> <<>>,
   allow_tags_direct |-> <<>>, allow_tags_deep |-> <<>>,
   allow_attributes_by_tag |-> <<>>, allow_classes_by_tag |-> <<>>,
   join_siblings |-> <<>>,
   allowed_empty_tags |-> <<nIMG, nIFRAME, nHR, nBR, nINPUT>>]

\* { ...optionDefaults, ...options }
MergeOptions(options) ==
  [k \in (DOMAIN optionDefaults) \cup (DOMAIN options) |->
     IF k \in DOMAIN options THEN options[k] ELSE optionDefaults[k]]

keysAndValuesToRegexp ==
  {"remove_tags_direct", "remove_tags_deep", "flatten_tags_direct",
   "flatten_tags_deep", "allow_tags_direct", "allow_tags_deep",
   "allow_attributes_by_tag", "allow_classes_by_tag"}

keysToRegexp == {"filters_by_tag"}

precompileOptions(options) ==
  [k \in DOMAIN options |->
     IF k \in keysAndValuesToRegexp
     THEN [e \in 1..Len(options[k]) |->
             [key |-> compileRegex(options[k][e].key),
              vals |-> [j \in 1..Len(options[k][e].vals) |->
                          compileRegex(options[k][e].vals[j])]]]
     ELSE IF k \in keysToRegexp
     THEN [e \in 1..Len(options[k]) |->
             [key |-> compileRegex(options[k][e].key),
              vals |-> options[k][e].vals]]
     ELSE options[k]]

(***************************************************************************)
(* The DOM: a heap of nodes, a node's id is its index.  parent = 0 means   *)
(* the node has no parent.  `host` is history information: for the         *)
(* fragment made by the flatten operation, the node being flattened.       *)
(***************************************************************************)
NewNode(type, name, text, attrs, classes, host) ==
  [type |-> type, name |-> name, parent |-> 0, kids |-> <<>>,
   attrs |-> attrs, classes |-> classes, text |-> text, host |-> host]

Without(seq, x) == SelectSeq(seq, LAMBDA y : y # x)

IndexOf(seq, x) == CHOOSE i \in 1..Len(seq) : seq[i] = x

InsertAt(seq, i, x) == SubSeq(seq, 1, i - 1) \o <<x>> \o SubSeq(seq, i, Len(seq))

\* Node.remove(): detach n from its parent, n keeps its subtree
Detach(nodes, n) ==
  LET p == nodes[n].parent
  IN IF p = 0 THEN nodes
     ELSE [nodes EXCEPT ![p].kids = Without(@, n), ![n].parent = 0]

\* parent.appendChild(n): n is first removed from where it is
AppendChild(nodes, parent, n) ==
  LET d == Detach(nodes, n)
  IN [d EXCEPT ![parent].kids = Append(@, n), ![n].parent = parent]

RECURSIVE InsertAllBefore(_, _, _, _)
\* parent.insertBefore(n, ref) for each n of list, in order
InsertAllBefore(nodes, parent, list, ref) ==
  IF list = <<>> THEN nodes
  ELSE LET n == Head(list)
           d == Detach(nodes, n)
           at == IndexOf(d[parent].kids, ref)
           ins == [d EXCEPT ![parent].kids = InsertAt(@, at, n),
                            ![n].parent = parent]
       IN InsertAllBefore(ins, parent, Tail(list), ref)

\* parent.insertBefore(n, ref); a DocumentFragment is replaced by its
\* children and is empty afterwards
InsertBefore(nodes, parent, n, ref) ==
  IF nodes[n].type = "frag"
  THEN InsertAllBefore(nodes, parent, nodes[n].kids, ref)
  ELSE InsertAllBefore(nodes, parent, <<n>>, ref)

\* Array-like snapshot of node.childNodes
childrenSnapshot(nodes, n) == nodes[n].kids

(***************************************************************************)
(* Attribute and class filtering of a kept element.                        *)
(***************************************************************************)
\* the class tokens filtered, the class attribute left in place
filterClassesKeepAttribute(nodes, node, allowClassesByTag) ==
  [nodes EXCEPT ![node].classes =
     SelectSeq(@, LAMBDA c : matchesAny(allowClassesByTag, nodes[node].name, c))]

filterClassesForNode(nodes, node, allowClassesByTag) ==
  LET classes == nodes[node].classes
      kept == SelectSeq(classes,
                LAMBDA c : matchesAny(allowClassesByTag, nodes[node].name, c))
      hasClass == \E i \in 1..Len(nodes[node].attrs) : nodes[node].attrs[i] = nClass
  IN IF hasClass /\ kept = <<>>
     THEN [nodes EXCEPT ![node].classes = kept,
                        ![node].attrs = Without(@, nClass)]
     ELSE [nodes EXCEPT ![node].classes = kept]

RECURSIVE RemoveLive(_, _, _, _)
\* a loop over the live attribute list: after a removal the next attribute
\* slides into position i and is never looked at
RemoveLive(nodes, node, allowAttributesByTag, i) ==
  IF i > Len(nodes[node].attrs) THEN nodes
  ELSE LET attname == nodes[node].attrs[i]
       IN IF attname # nClass
             /\ ~matchesAny(allowAttributesByTag, nodes[node].name, attname)
          THEN RemoveLive([nodes EXCEPT ![node].attrs = Without(@, attname)],
                          node, allowAttributesByTag, i + 1)
          ELSE RemoveLive(nodes, node, allowAttributesByTag, i + 1)

filterAttributesLive(nodes, node, allowAttributesByTag) ==
  RemoveLive(nodes, node, allowAttributesByTag, 1)

filterAttributesForNode(nodes, node, allowAttributesByTag) ==
  LET attributeNames == nodes[node].attrs
  IN [nodes EXCEPT ![node].attrs =
        SelectSeq(attributeNames,
          LAMBDA attname :
            ~(attname # nClass
              /\ ~matchesAny(allowAttributesByTag, nodes[node].name, attname)))]

(***************************************************************************)
(* The engine state.  nodes, propMap (node -> id of its property object,   *)
(* 0 = no entry in the WeakMap) and propObjs (the property objects) are    *)
(* the world the call works on; opts, parents and parentNodenames are the  *)
(* closure variables of sanitizeDom; err is the exception being thrown;    *)
(* log, depth and ctx are history information.                             *)
(***************************************************************************)
NoProps ==
  [skip |-> "undef", skip_filters |-> "undef",
   skip_classes |-> "undef", skip_attributes |-> "undef"]

Truthy(v) == v = "true"

RECURSIVE TrueChain(_, _)
\* the ancestors of n below and including the context node, nearest first;
\* a node waiting in the fragment of a flatten operation counts as being
\* where the fragment will be inserted
TrueChain(st, n) ==
  LET p == st.nodes[n].parent
  IN IF n = st.ctx \/ p = 0 THEN <<>>
     ELSE IF st.nodes[p].type = "frag" THEN TrueChain(st, st.nodes[p].host)
     ELSE <<p>> \o TrueChain(st, p)

\* one entry of the call's history: what happened to which node, with the
\* engine's ancestor arrays and the node's surroundings at that moment
Event(st, ev, node, par, idx, info, pos, data) ==
  [st EXCEPT !.log = Append(@,
     [ev |-> ev, node |-> node, idx |-> idx, info |-> info, pos |-> pos,
      parents |-> st.parents, names |-> st.parentNodenames,
      chain |-> TrueChain(st, node), dpar |-> par,
      kids |-> st.nodes[node].kids,
      sibs |-> IF par = 0 THEN <<>> ELSE st.nodes[par].kids,
      data |-> data])]

Ev(st, ev, node, idx, info, pos) ==
  Event(st, ev, node, st.nodes[node].parent, idx, info, pos, <<>>)

Alloc(st, rec) ==
  [st EXCEPT !.nodes = Append(@, rec), !.propMap = Append(@, 0)]

\* nodePropertyMap.set(n, obj)
MapSet(st, n, obj) ==
  [st EXCEPT !.propObjs = Append(@, obj), !.propMap[n] = Len(st.propObjs) + 1]

(***************************************************************************)
(* Filters: the callbacks a caller may pass in filters_by_tag.  Each       *)
(* returns the engine state (a filter may create nodes and set             *)
(* properties) and its result: the same node, null, a node or an array.    *)
(***************************************************************************)
FilterNames ==
  {"keep", "drop", "skipLater", "toEM", "toEmptyEM",
   "cloneUndef", "arrowClone", "cloneTrue", "cloneFalse", "pairUndef",
   "pairTrue", "none", "setSkipAttributes", "putSkipAttributes",
   "setSkipClasses", "toB"}

\* an arrow function: a function object without a prototype property
IsArrow(f) == f = "arrowClone"

CloneOf(st, node) ==
  NewNode(st.nodes[node].type, st.nodes[node].name,
          st.nodes[node].text, <<>>, <<>>, 0)

applyFilter(st, f, node) ==
  LET id1 == Len(st.nodes) + 1
      id2 == Len(st.nodes) + 2
      em == NewNode("elem", nEM, "", <<>>, <<>>, 0)
      txt == NewNode("text", nHashText, "x", <<>>, <<>>, 0)
  IN CASE f = "keep" -> [st |-> st, kind |-> "node", res |-> <<node>>]
       [] f = "drop" -> [st |-> st, kind |-> "null", res |-> <<>>]
       [] f = "skipLater" ->
            [st |-> MapSet(st, node, [NoProps EXCEPT !.skip_filters = "true"]),
             kind |-> "node", res |-> <<node>>]
       [] f = "toEM" ->
            LET s1 == Alloc(Alloc(st, em), txt)
            IN [st |-> [s1 EXCEPT !.nodes = AppendChild(@, id1, id2)],
                kind |-> "node", res |-> <<id1>>]
       [] f = "toB" ->
            LET s1 == Alloc(Alloc(st, NewNode("elem", nB, "", <<>>, <<>>, 0)), txt)
            IN [st |-> [s1 EXCEPT !.nodes = AppendChild(@, id1, id2)],
                kind |-> "node", res |-> <<id1>>]
       [] f = "toEmptyEM" ->
            [st |-> Alloc(st, em), kind |-> "node", res |-> <<id1>>]
       [] f \in {"cloneUndef", "arrowClone"} ->
            [st |-> Alloc(st, CloneOf(st, node)), kind |-> "node", res |-> <<id1>>]
       [] f = "cloneTrue" ->
            [st |-> MapSet(Alloc(st, CloneOf(st, node)), id1,
                           [NoProps EXCEPT !.skip_filters = "true"]),
             kind |-> "node", res |-> <<id1>>]
       [] f = "cloneFalse" ->
            [st |-> MapSet(Alloc(st, CloneOf(st, node)), id1,
                           [NoProps EXCEPT !.skip_filters = "false"]),
             kind |-> "node", res |-> <<id1>>]
       [] f = "pairUndef" ->
            [st |-> Alloc(Alloc(st, em), CloneOf(st, node)),
             kind |-> "array", res |-> <<id1, id2>>]
       [] f = "pairTrue" ->
            [st |-> MapSet(Alloc(Alloc(st, em), CloneOf(st, node)), id2,
                           [NoProps EXCEPT !.skip_filters = "true"]),
             kind |-> "array", res |-> <<id1, id2>>]
       [] f = "setSkipAttributes" ->
            [st |-> MapSet(st, node, [NoProps EXCEPT !.skip_attributes = "true"]),
             kind |-> "node", res |-> <<node>>]
       [] f = "putSkipAttributes" ->
            [st |-> IF st.propMap[node] = 0
                    THEN MapSet(st, node,
                                [NoProps EXCEPT !.skip_attributes = "true"])
                    ELSE [st EXCEPT
                            !.propObjs[st.propMap[node]].skip_attributes = "true"],
             kind |-> "node", res |-> <<node>>]
       [] f = "setSkipClasses" ->
            [st |-> MapSet(st, node, [NoProps EXCEPT !.skip_classes = "true"]),
             kind |-> "node", res |-> <<node>>]
       [] OTHER -> [st |-> st, kind |-> "array", res |-> <<>>]

(***************************************************************************)
(* sanitizeDom and its nested functions.                                   *)
(***************************************************************************)
RECURSIVE sanitizeNode(_, _, _), sanitizeChildNodes(_, _),
          sanitizeChildLoopLive(_, _, _),
          sanitizeChildLoop(_, _, _), runFilterLoop(_, _, _, _, _),
          sanitizeReplacements(_, _, _, _, _), joinSiblings(_, _, _),
          joinLoop(_, _, _, _, _)

Throw(st, what) == [st EXCEPT !.err = what]

RECURSIVE AppendAll(_, _, _)
\* for (j ...) node.appendChild(children[j])
AppendAll(nodes, node, children) ==
  IF children = <<>> THEN nodes
  ELSE AppendAll(AppendChild(nodes, node, Head(children)), node, Tail(children))

\* any text node counts as white space
IsAnyText(nodes, n) == TRUE

\* neighbour1.textContent.match(/^\s+$/)
IsWhitespace(nodes, n) == nodes[n].text = "ws"

Includes(list, x) == \E k \in 1..Len(list) : list[k] = x

\* the loop without its look-ahead across white space
joinLoopAdjacentOnly(st, parentNode, joinableTags, siblings, i) ==
  IF i > Len(siblings) THEN st
  ELSE
    LET node == siblings[i]
        neighbour1 == IF i + 1 <= Len(siblings) THEN siblings[i + 1] ELSE 0
        nd == st.nodes
    IN IF neighbour1 = 0 \/ ~Includes(joinableTags, nd[node].name)
          \/ nd[node].name # nd[neighbour1].name
       THEN joinLoop(st, parentNode, joinableTags, siblings, i + 1)
       ELSE LET moved == AppendAll(nd, node, childrenSnapshot(nd, neighbour1))
                s1 == Event([st EXCEPT !.nodes = Detach(moved, neighbour1)],
                            "join", node, nd[node].parent, i - 1, "adjacent",
                            neighbour1,
                            [before |-> nd[parentNode].kids, siblings |-> siblings])
            IN joinLoop(joinSiblings(s1, parentNode, joinableTags),
                        parentNode, joinableTags, siblings, i + 1)

joinLoop(st, parentNode, joinableTags, siblings, i) ==
  IF i > Len(siblings) THEN st
  ELSE
    LET node == siblings[i]
        neighbour1 == IF i + 1 <= Len(siblings) THEN siblings[i + 1] ELSE 0
        neighbour2 == IF i + 2 <= Len(siblings) THEN siblings[i + 2] ELSE 0
        nd == st.nodes
    IN IF neighbour1 = 0 \/ ~Includes(joinableTags, nd[node].name)
       THEN joinLoop(st, parentNode, joinableTags, siblings, i + 1)
       ELSE IF nd[node].name = nd[neighbour1].name
       THEN LET moved == AppendAll(nd, node, childrenSnapshot(nd, neighbour1))
                s1 == Event([st EXCEPT !.nodes = Detach(moved, neighbour1)],
                            "join", node, nd[node].parent, i - 1, "adjacent",
                            neighbour1,
                            [before |-> nd[parentNode].kids, siblings |-> siblings])
            IN joinLoop(joinSiblings(s1, parentNode, joinableTags),
                        parentNode, joinableTags, siblings, i + 1)
       ELSE IF neighbour2 # 0 /\ nd[node].name = nd[neighbour2].name
               /\ nd[neighbour1].type = "text" /\ IsWhitespace(nd, neighbour1)
       THEN LET n1 == AppendChild(nd, node, neighbour1)
                moved == AppendAll(n1, node, childrenSnapshot(n1, neighbour2))
                s1 == Event([st EXCEPT !.nodes = Detach(moved, neighbour2)],
                            "join", node, nd[node].parent, i - 1, "space",
                            neighbour2,
                            [before |-> nd[parentNode].kids, siblings |-> siblings])
            IN joinLoop(joinSiblings(s1, parentNode, joinableTags),
                        parentNode, joinableTags, siblings, i + 1)
       ELSE joinLoop(st, parentNode, joinableTags, siblings, i + 1)

\* the return of joinSiblings
joinReturn(st, parentNode) == Event(st, "joined", parentNode, 0, 0, "", 0, <<>>)

joinSiblings(st, parentNode, joinableTags) ==
  joinReturn(joinLoop(st, parentNode, joinableTags,
                      childrenSnapshot(st.nodes, parentNode), 1),
             parentNode)

\* replaceable.remove() left out when there is nothing to insert
replaceWithNodesKeepEmpty(st, replaceable, replacements) ==
  LET p == st.nodes[replaceable].parent
  IN IF replacements # <<>> /\ p = 0 THEN Throw(st, "TypeError")
     ELSE IF replacements = <<>> THEN st
     ELSE [st EXCEPT !.nodes =
             Detach(InsertAllBefore(@, p, replacements, replaceable),
                    replaceable)]

replaceWithNodes(st, replaceable, replacements) ==
  LET p == st.nodes[replaceable].parent
  IN IF replacements # <<>> /\ p = 0 THEN Throw(st, "TypeError")
     ELSE [st EXCEPT !.nodes =
             Detach(IF replacements = <<>> THEN @
                    ELSE InsertAllBefore(@, p, replacements, replaceable),
                    replaceable)]

\* the test of the infinite-loop guard on one replacement r
LoopGuard(st, r, node) ==
  LET props == st.propMap[r]
  IN st.nodes[r].name = st.nodes[node].name
     /\ ~(props # 0 /\ st.propObjs[props].skip_filters # "undef")

\* what the throw statement of the guard raises: building the message
\* reads filter.prototype.constructor.name, and an arrow function has no
\* prototype, so the read itself raises a TypeError
GuardError(filter) == IF IsArrow(filter) THEN "TypeError" ELSE "loop"

\* the guard tested on every replacement before any of them is processed
sanitizeReplacementsGuardFirst(st, replacements, j, node, filter) ==
  IF st.err # "none" \/ j > Len(replacements) THEN st
  ELSE IF \E k \in j..Len(replacements) : LoopGuard(st, replacements[k], node)
  THEN LET k == CHOOSE k \in j..Len(replacements) :
                  /\ LoopGuard(st, replacements[k], node)
                  /\ \A m \in j..(k - 1) : ~LoopGuard(st, replacements[m], node)
       IN Throw(Ev(st, "throw", replacements[k], k - 1, GuardError(filter), node),
                GuardError(filter))
  ELSE sanitizeReplacements(sanitizeNode(st, replacements[j], j - 1),
                            replacements, j + 1, node, filter)

\* replacements.forEach((r, index) => { guard; sanitizeNode(r, index) })
sanitizeReplacements(st, replacements, j, node, filter) ==
  IF st.err # "none" \/ j > Len(replacements) THEN st
  ELSE LET r == replacements[j]
       IN IF LoopGuard(st, r, node)
          THEN Throw(Ev(st, "throw", r, j - 1, GuardError(filter), node),
                     GuardError(filter))
          ELSE sanitizeReplacements(sanitizeNode(st, r, j - 1),
                                    replacements, j + 1, node, filter)

\* const nodeProperties = nodePropertyMap.get(node), read as a record
PropsOf(st, node) ==
  IF st.propMap[node] = 0 THEN NoProps ELSE st.propObjs[st.propMap[node]]

\* skip_filters is read but the delete statement is missing
TakeSkipFiltersKeep(st, node) ==
  [skipFilters |-> st.propMap[node] # 0
                     /\ Truthy(st.propObjs[st.propMap[node]].skip_filters),
   st |-> st]

\* nodeProperties && nodeProperties.skip_filters; delete nodeProperties.skip_filters
TakeSkipFilters(st, node) ==
  LET np == st.propMap[node]
  IN [skipFilters |-> np # 0 /\ Truthy(st.propObjs[np].skip_filters),
      st |-> IF np # 0 THEN [st EXCEPT !.propObjs[np].skip_filters = "undef"]
             ELSE st]

\* the skip_filters value each returned node has when the filter returns
SkipFiltersOf(st, res) ==
  [j \in 1..Len(res) |->
     IF st.propMap[res[j]] = 0 THEN "undef"
     ELSE st.propObjs[st.propMap[res[j]]].skip_filters]

\* removed = true missing from the branch of a null result
RemovedFlagNotForNull(kind) == kind \in {"array", "node"}

\* removed = true in the three branches that take the node out of the tree
RemovedFlag(kind) == kind \in {"array", "node", "null"}

\* result === node without the test of skip_filters: always the next filter
sameNodeResultContinue(t, node, filters, i, siblingIndex) ==
  runFilterLoop(t.st, node, filters, i + 1, siblingIndex)

\* result === node: the property object is fetched again, skip_filters is
\* read and deleted, and the loop breaks or continues with the next filter
sameNodeResult(t, node, filters, i, siblingIndex) ==
  IF t.skipFilters THEN [st |-> t.st, removed |-> FALSE]
  ELSE runFilterLoop(t.st, node, filters, i + 1, siblingIndex)

\* the three results that take the node out of the tree: an array, another
\* node, or null; s0 is the state when the filter has returned
replaceNode(s0, r, par, node) ==
  IF r.kind = "array" THEN replaceWithNodes(s0, node, r.res)
  ELSE IF r.kind = "node"
  THEN IF par = 0 THEN Throw(s0, "TypeError")
       ELSE [s0 EXCEPT !.nodes =
               Detach(InsertAllBefore(@, par, r.res, node), node)]
  ELSE [s0 EXCEPT !.nodes = Detach(@, node)]

\* the replacements are processed once the node has been replaced
afterReplace(s1, r, par, node, filter, i, siblingIndex) ==
  [st |-> sanitizeReplacements(
            IF s1.err # "none" THEN s1
            ELSE Event(s1, "replaced", node, par, siblingIndex, r.kind, i, <<>>),
            r.res, 1, node, filter),
   removed |-> RemovedFlag(r.kind)]

\* the if-chain on the result r of filters[i]
filterResult(r, node, filters, i, siblingIndex) ==
  LET par == r.st.nodes[node].parent
  IN IF r.kind = "node" /\ r.res[1] = node
     THEN sameNodeResult(
            TakeSkipFilters(Event(r.st, "result", node, par, siblingIndex,
                                  "same", i, PropsOf(r.st, node)),
                            node),
            node, filters, i, siblingIndex)
     ELSE afterReplace(
            replaceNode(Event(r.st, "result", node, par, siblingIndex, r.kind, i,
                              [res |-> r.res, sf |-> SkipFiltersOf(r.st, r.res)]),
                        r, par, node),
            r, par, node, filters[i], i, siblingIndex)

runFilterLoop(st, node, filters, i, siblingIndex) ==
  IF i > Len(filters) THEN [st |-> st, removed |-> FALSE]
  ELSE filterResult(
         applyFilter(Ev(st, "filter", node, siblingIndex, filters[i], i),
                     filters[i], node),
         node, filters, i, siblingIndex)

\* skip_filters is consumed but the early return is missing
runFiltersOnNodeNoEarlyReturn(st, node, filters, siblingIndex) ==
  runFilterLoop(TakeSkipFilters(st, node).st, node, filters, 1, siblingIndex)

runFiltersOnNode(st, node, filters, siblingIndex) ==
  LET t == TakeSkipFilters(st, node)
  IN IF t.skipFilters THEN [st |-> t.st, removed |-> FALSE]
     ELSE runFilterLoop(t.st, node, filters, 1, siblingIndex)

\* moveChildNodesToFragment: a new DocumentFragment takes all children
moveChildNodesToFragment(st, nd) ==
  LET f == Len(st.nodes) + 1
      s1 == Alloc(st, NewNode("frag", nFragment, "", <<>>, <<>>, nd))
      children == childrenSnapshot(s1.nodes, nd)
  IN [s1 EXCEPT !.nodes = AppendAll(@, f, children)]

\* the fragment's children appended to the parent instead of being
\* inserted before the node
insertFragmentAtEnd(s1, fragment, node) ==
  IF s1.err # "none" THEN s1
  ELSE IF s1.nodes[node].parent = 0 THEN Throw(s1, "TypeError")
  ELSE Event([s1 EXCEPT !.nodes =
                Detach(AppendAll(@, s1.nodes[node].parent,
                                 s1.nodes[fragment].kids), node)],
             "flattened", node, s1.nodes[node].parent, 0, "", 0,
             [contents |-> s1.nodes[fragment].kids])

\* node.parentNode.insertBefore(fragment, node); node.remove()
insertFragment(s1, fragment, node) ==
  IF s1.err # "none" THEN s1
  ELSE IF s1.nodes[node].parent = 0 THEN Throw(s1, "TypeError")
  ELSE Event([s1 EXCEPT !.nodes =
                Detach(InsertBefore(@, s1.nodes[node].parent, fragment, node),
                       node)],
             "flattened", node, s1.nodes[node].parent, 0, "", 0,
             [contents |-> s1.nodes[fragment].kids])

\* the node taken out together with its children
childNodesRemovedWithNode(st, node) ==
  IF st.nodes[node].parent = 0 THEN st
  ELSE [st EXCEPT !.nodes = Detach(@, node)]

\* the early return for a node without parent left out
childNodesToSanitizedSiblingsUnchecked(st, node) ==
  insertFragment(
    sanitizeChildNodes(moveChildNodesToFragment(st, node), Len(st.nodes) + 1),
    Len(st.nodes) + 1, node)

childNodesToSanitizedSiblings(st, node) ==
  IF st.nodes[node].parent = 0 THEN st
  ELSE insertFragment(
         sanitizeChildNodes(moveChildNodesToFragment(st, node), Len(st.nodes) + 1),
         Len(st.nodes) + 1, node)

\* remove_tags_direct tested against every ancestor instead of parents[0]
removeMatchesAnyAncestor(st, tagname) ==
  \/ \E k \in 1..Len(st.parentNodenames) :
       matchesAny(st.opts.remove_tags_direct, st.parentNodenames[k], tagname)
  \/ \E k \in 1..Len(st.parentNodenames) :
       matchesAny(st.opts.remove_tags_deep, st.parentNodenames[k], tagname)

\* the conditions of the three rule branches of sanitizeNode
removeMatches(st, tagname) ==
  \/ matchesAny(st.opts.remove_tags_direct, st.nodes[st.parents[1]].name, tagname)
  \/ \E k \in 1..Len(st.parentNodenames) :
       matchesAny(st.opts.remove_tags_deep, st.parentNodenames[k], tagname)

flattenMatches(st, tagname) ==
  \/ matchesAny(st.opts.flatten_tags_direct, st.nodes[st.parents[1]].name, tagname)
  \/ \E k \in 1..Len(st.parentNodenames) :
       matchesAny(st.opts.flatten_tags_deep, st.parentNodenames[k], tagname)

allowMatches(st, tagname) ==
  \/ matchesAny(st.opts.allow_tags_direct, st.nodes[st.parents[1]].name, tagname)
  \/ \E k \in 1..Len(st.parentNodenames) :
       matchesAny(st.opts.allow_tags_deep, st.parentNodenames[k], tagname)

\* the if-chain with the allow test placed before the flatten test
decideAllowFirst(st, tagname) ==
  IF removeMatches(st, tagname) THEN "remove"
  ELSE IF allowMatches(st, tagname) THEN "allow"
  ELSE IF flattenMatches(st, tagname) THEN "flatten"
  ELSE "default"

\* the if-chain whose last branch keeps the node instead of flattening it
decideDefaultAllow(st, tagname) ==
  IF removeMatches(st, tagname) THEN "remove"
  ELSE IF flattenMatches(st, tagname) THEN "flatten"
  ELSE "allow"

\* the if-chain of sanitizeNode after the filters: which branch is taken
decide(st, tagname) ==
  IF removeMatches(st, tagname) THEN "remove"
  ELSE IF flattenMatches(st, tagname) THEN "flatten"
  ELSE IF allowMatches(st, tagname) THEN "allow"
  ELSE "default"

\* the allow branch with both flags deleted once they have been read
keepNodeOneShot(st, node, nodeProperties) ==
  LET n1 == IF ~(nodeProperties # 0
                 /\ Truthy(st.propObjs[nodeProperties].skip_classes))
            THEN filterClassesForNode(st.nodes, node, st.opts.allow_classes_by_tag)
            ELSE st.nodes
      n2 == IF ~(nodeProperties # 0
                 /\ Truthy(st.propObjs[nodeProperties].skip_attributes))
            THEN filterAttributesForNode(n1, node, st.opts.allow_attributes_by_tag)
            ELSE n1
  IN IF nodeProperties = 0 THEN [st EXCEPT !.nodes = n2]
     ELSE [st EXCEPT !.nodes = n2,
                     !.propObjs[nodeProperties].skip_classes = "undef",
                     !.propObjs[nodeProperties].skip_attributes = "undef"]

\* the allow branch up to the descent: class and attribute filtering,
\* suppressed by the flags of the property object fetched at entry
keepNode(st, node, nodeProperties) ==
  LET n1 == IF ~(nodeProperties # 0
                 /\ Truthy(st.propObjs[nodeProperties].skip_classes))
            THEN filterClassesForNode(st.nodes, node, st.opts.allow_classes_by_tag)
            ELSE st.nodes
      n2 == IF ~(nodeProperties # 0
                 /\ Truthy(st.propObjs[nodeProperties].skip_attributes))
            THEN filterAttributesForNode(n1, node, st.opts.allow_attributes_by_tag)
            ELSE n1
  IN [st EXCEPT !.nodes = n2]

\* leaving an activation of sanitizeNode
Return(st) == [st EXCEPT !.depth = @ - 1]

\* the descent with parentNodenames.unshift and .shift left out
descendWithoutNames(s3, node) ==
  [sanitizeChildNodes([s3 EXCEPT !.parents = <<node>> \o @], node)
     EXCEPT !.parents = Tail(@)]

\* parents.unshift(node); parentNodenames.unshift(tagname);
\* sanitizeChildNodes(node); parents.shift(); parentNodenames.shift()
descend(s3, node) ==
  [sanitizeChildNodes([s3 EXCEPT
                         !.parents = <<node>> \o @,
                         !.parentNodenames = <<s3.nodes[node].name>> \o @],
                      node)
     EXCEPT !.parents = Tail(@), !.parentNodenames = Tail(@)]

\* the body of the branch b of the if-chain
takeBranch(s2, b, node, nodeProperties) ==
  IF b = "remove" THEN [s2 EXCEPT !.nodes = Detach(@, node)]
  ELSE IF b = "allow" THEN descend(keepNode(s2, node, nodeProperties), node)
  ELSE childNodesToSanitizedSiblings(s2, node)

\* the object nodeProperties refers to, read as a record
Captured(st, nodeProperties) ==
  [obj |-> nodeProperties,
   props |-> IF nodeProperties = 0 THEN NoProps ELSE st.propObjs[nodeProperties]]

ruleBranch(s1, b, node, index, nodeProperties) ==
  takeBranch(Event(s1, "branch", node, s1.nodes[node].parent, index, b, 0,
                   Captured(s1, nodeProperties)),
             b, node, nodeProperties)

\* sanitizeNode from the return of runFiltersOnNode on: r is what it returned
afterFilters(r, tagname, node, index, nodeProperties) ==
  IF r.st.err # "none" THEN r.st
  ELSE IF r.removed THEN Ev(r.st, "branch", node, index, "filtered", 0)
  ELSE IF r.st.nodes[node].type = "text"
  THEN Ev(r.st, "branch", node, index, "text", 0)
  ELSE ruleBranch(r.st, decide(r.st, tagname), node, index, nodeProperties)

\* sanitizeNode from the filters on: s0 is the state at entry
filterAndBranch(s0, tagname, node, index) ==
  afterFilters(
    runFiltersOnNode(s0, node,
                     getValuesForTagname(s0.opts.filters_by_tag, tagname), index),
    tagname, node, index, s0.propMap[node])

\* sanitizeNode after the depth has been counted
enterNode(s0, node, index) ==
  IF s0.propMap[node] # 0 /\ Truthy(s0.propObjs[s0.propMap[node]].skip)
  THEN Ev([s0 EXCEPT !.propObjs[s0.propMap[node]].skip = "undef"],
          "branch", node, index, "skip", 0)
  ELSE filterAndBranch(s0,
                       IF s0.nodes[node].type = "text" THEN nTEXT
                       ELSE s0.nodes[node].name,
                       node, index)

sanitizeNode(st, node, index) ==
  IF st.err # "none" THEN st
  ELSE IF st.depth >= MaxDepth THEN Throw(st, "RangeError")
  ELSE Return(enterNode(Event([st EXCEPT !.depth = @ + 1], "enter", node,
                              st.nodes[node].parent, index, "", 0,
                              PropsOf(st, node)),
                        node, index))

\* opts.remove_empty && element && not an allowed empty tag && no children
isRemovableEmpty(st, node) ==
  /\ "remove_empty" \in DOMAIN st.opts /\ st.opts.remove_empty
  /\ st.nodes[node].type = "elem"
  /\ ~Includes(st.opts.allowed_empty_tags, st.nodes[node].name)
  /\ Len(st.nodes[node].kids) = 0

\* if (the node is removable empty) node.remove()
removeIfEmpty(s1, node, i) ==
  IF s1.err = "none" /\ isRemovableEmpty(s1, node)
  THEN [Ev(s1, "empty", node, i - 1, "", 0) EXCEPT !.nodes = Detach(@, node)]
  ELSE s1

sanitizeChildLoop(st, children, i) ==
  IF st.err # "none" \/ i > Len(children) THEN st
  ELSE sanitizeChildLoop(
         removeIfEmpty(
           sanitizeNode(Ev(st, "child", children[i], i - 1, "", 0),
                        children[i], i - 1),
           children[i], i),
         children, i + 1)

\* if (opts.join_siblings.length > 0) joinSiblings(parent, opts.join_siblings)
joinIfAsked(s1, parent) ==
  IF s1.err = "none" /\ Len(s1.opts.join_siblings) > 0
  THEN joinSiblings(s1, parent, s1.opts.join_siblings)
  ELSE s1

\* the loop over parent.childNodes itself instead of a snapshot of it
sanitizeChildLoopLive(st, parent, i) ==
  IF st.err # "none" \/ i > Len(st.nodes[parent].kids) THEN st
  ELSE sanitizeChildLoopLive(
         removeIfEmpty(
           sanitizeNode(Ev(st, "child", st.nodes[parent].kids[i], i - 1, "", 0),
                        st.nodes[parent].kids[i], i - 1),
           st.nodes[parent].kids[i], i),
         parent, i + 1)

sanitizeChildNodesLive(st, parent) ==
  joinIfAsked(sanitizeChildLoopLive(st, parent, 1), parent)

sanitizeChildNodes(st, parent) ==
  joinIfAsked(sanitizeChildLoop(st, childrenSnapshot(st.nodes, parent), 1), parent)

\* the two interface checks in the other order
dispatchNodeCheckFirst(st, docOk, nodeOk, contextNode, childrenOnly) ==
  IF ~nodeOk THEN Throw(st, "node")
  ELSE IF ~docOk THEN Throw(st, "doc")
  ELSE IF childrenOnly
  THEN sanitizeChildNodes(
         [st EXCEPT !.parents = <<contextNode>>,
                    !.parentNodenames = <<st.nodes[contextNode].name>>],
         contextNode)
  ELSE sanitizeNode(
         [st EXCEPT !.parents = <<contextNode>>,
                    !.parentNodenames = <<st.nodes[contextNode].name>>],
         contextNode, 0)

\* the interface checks, parents.unshift(contextNode) and the dispatch on
\* childrenOnly; st is the state the closures of sanitizeDom start from
dispatch(st, docOk, nodeOk, contextNode, childrenOnly) ==
  IF ~docOk THEN Throw(st, "doc")
  ELSE IF ~nodeOk THEN Throw(st, "node")
  ELSE IF childrenOnly
  THEN sanitizeChildNodes(
         [st EXCEPT !.parents = <<contextNode>>,
                    !.parentNodenames = <<st.nodes[contextNode].name>>],
         contextNode)
  ELSE sanitizeNode(
         [st EXCEPT !.parents = <<contextNode>>,
                    !.parentNodenames = <<st.nodes[contextNode].name>>],
         contextNode, 0)

\* one call of sanitizeDom on the world w = [nodes, propMap, propObjs]
sanitizeDom(w, docOk, nodeOk, contextNode, options, childrenOnly) ==
  dispatch([nodes |-> w.nodes, propMap |-> w.propMap, propObjs |-> w.propObjs,
            opts |-> precompileOptions(MergeOptions(options)),
            parents |-> <<>>, parentNodenames |-> <<>>,
            err |-> "none", log |-> <<>>, depth |-> 0, ctx |-> contextNode],
           docOk, nodeOk, contextNode, childrenOnly)

(***************************************************************************)
(* Inputs: documents, option sets.                                         *)
(***************************************************************************)
El(name, attrs, classes, kids) ==
  [type |-> "elem", name |-> name, text |-> "", attrs |-> attrs,
   classes |-> classes, kids |-> kids]

Tx(text) ==
  [type |-> "text", name |-> nHashText, text |-> text, attrs |-> <<>>,
   classes |-> <<>>, kids |-> <<>>]

E(name, kids) == El(name, <<>>, <<>>, kids)

RECURSIVE AddTerm(_, _, _), AddTerms(_, _, _)
AddTerm(nodes, parent, term) ==
  LET id == Len(nodes) + 1
      rec == [NewNode(term.type, term.name, term.text, term.attrs,
                      term.classes, 0) EXCEPT !.parent = parent]
      n1 == Append(nodes, rec)
      n2 == IF parent = 0 THEN n1 ELSE [n1 EXCEPT ![parent].kids = Append(@, id)]
  IN AddTerms(n2, id, term.kids)

AddTerms(nodes, parent, terms) ==
  IF terms = <<>> THEN nodes
  ELSE AddTerms(AddTerm(nodes, parent, Head(terms)), parent, Tail(terms))

nHTML == <<"H", "T", "M", "L">>

\* a document: node 1 is HTML, node 2 is BODY, the content is below BODY
Document(content) == AddTerm(<<>>, 0, E(nHTML, <<E(nBODY, content)>>))

nSCRIPT == <<"S", "C", "R", "I", "P", "T">>

x == Tx("x")
ws == Tx("ws")

Contents ==
  { <<E(nB, <<x>>), E(nP, <<x, E(nB, <<x>>), E(nI, <<E(nB, <<x>>)>>)>>)>>,
    <<E(nP, <<x, E(nI, <<E(nB, <<x>>)>>)>>)>>,
    <<E(nB, <<>>)>>,
    <<E(nB, <<E(nI, <<Tx("")>>)>>)>>,
    <<E(nP, <<E(nB, <<>>), E(nBR, <<>>)>>), x>>,
    <<El(nP, <<nId, nHi, nClass>>, <<nOne, nTwo>>, <<x>>)>>,
    <<El(nP, <<nHi, nId, nTwo, nClass>>, <<nOne, nTwo>>,
         <<El(nB, <<nClass>>, <<>>, <<x>>)>>)>>,
    <<E(nB, <<x>>), ws, E(nB, <<x>>), ws, E(nB, <<x>>)>>,
    <<E(nB, <<x>>), E(nB, <<x>>), ws, E(nB, <<x>>)>>,
    <<E(nB, <<E(nI, <<x>>)>>), E(nB, <<E(nI, <<x>>)>>)>>,
    <<E(nB, <<x>>), x, E(nB, <<x>>), ws, E(nI, <<x>>), E(nI, <<x>>)>>,
    <<E(nP, <<E(nB, <<x>>), E(nI, <<x>>), E(nB, <<x>>)>>)>>,
    <<x>>,
    <<E(nI, <<E(nI, <<x, E(nI, <<>>), x>>)>>)>>,
    <<E(nP, <<E(nSCRIPT, <<x>>)>>)>> }

rAny == << <<".*">> >>
rB == << <<"B">> >>
rLowerB == << <<"b">> >>
rI == << <<"I">> >>
rP == << <<"P">> >>
rEM == << <<"E", "M">> >>
rBODY == << <<"B", "O", "D", "Y">> >>
rTEXT == << <<"T", "E", "X", "T">> >>
rBorI == << <<"B">>, <<"I">> >>
rCaretP == << <<"^", "P">> >>
rH == << <<"^", "h", ".*">> >>
rOne == << <<"o", "n", "e">> >>
rHTML == << <<"H", "T", "M", "L">> >>

Rule(key, vals) == <<[key |-> key, vals |-> vals]>>

allowAll == [allow_tags_direct |-> Rule(rAny, <<rAny>>)]

NoOptions == [k \in {} |-> <<>>]

\* r @@ o : the options o with the fields of r added
With(o, r) == [k \in (DOMAIN o) \cup (DOMAIN r) |-> IF k \in DOMAIN r THEN r[k] ELSE o[k]]

RuleOptions ==
  { NoOptions,
    allowAll,
    With(allowAll, [flatten_tags_deep |-> Rule(rAny, <<rAny>>)]),
    With(allowAll, [remove_tags_direct |-> Rule(rP, <<rB>>)]),
    With(allowAll, [remove_tags_deep |-> Rule(rP, <<rB>>), remove_empty |-> TRUE]),
    With(allowAll, [flatten_tags_direct |-> Rule(rP, <<rLowerB>>)]),
    With(allowAll, [flatten_tags_deep |-> Rule(rB, <<rB>>) \o Rule(rI, <<rI>>)]),
    [allow_tags_deep |-> Rule(rP, <<rB>>), allow_tags_direct |-> Rule(rBODY, <<rP>>)],
    [allow_tags_direct |-> Rule(rAny, <<rCaretP>>)],
    With(allowAll, [remove_tags_direct |-> Rule(rBorI, <<rBorI>>)]),
    With(allowAll, [remove_tags_direct |-> Rule(rBODY, <<rI>>),
                    flatten_tags_deep |-> Rule(rBODY, <<rB>>)]),
    With(allowAll, [remove_tags_deep |-> Rule(rAny, <<rI>>),
                    flatten_tags_direct |-> Rule(rAny, <<rAny>>)]),
    With(allowAll, [remove_empty |-> TRUE]),
    With(allowAll, [allow_attributes_by_tag |-> Rule(rAny, <<rH>>)]),
    With(allowAll, [allow_attributes_by_tag |-> Rule(rAny, <<rAny>>),
                    allow_classes_by_tag |-> Rule(rP, <<rOne>>)]),
    With(allowAll, [allow_classes_by_tag |-> Rule(rLowerB, <<rAny>>) \o Rule(rP, <<rOne>>)]),
    With(allowAll, [join_siblings |-> <<nB>>]),
    With(allowAll, [join_siblings |-> <<nB, nI>>]) }

FilterLists ==
  { Rule(rB, <<"drop">>),
    Rule(rB, <<"toEM">>) \o Rule(rEM, <<"keep">>),
    Rule(rB, <<"cloneUndef">>),
    Rule(rB, <<"arrowClone">>),
    Rule(rB, <<"cloneTrue", "drop">>),
    Rule(rB, <<"pairUndef">>),
    Rule(rB, <<"pairTrue">>) \o Rule(rEM, <<"drop">>),
    Rule(rB, <<"none">>),
    Rule(rB, <<"none", "toEM">>) \o Rule(rHTML, <<"none">>),
    Rule(rB, <<"toEM">>) \o Rule(rEM, <<"toB">>),
    Rule(rB, <<"pairUndef">>) \o Rule(rEM, <<"keep">>),
    Rule(rB, <<"skipLater", "drop">>),
    Rule(rB, <<"keep", "drop">>),
    Rule(rB, <<"keep", "skipLater", "drop">>),
    Rule(rB, <<"drop", "toEM">>),
    Rule(rTEXT, <<"cloneFalse">>),
    Rule(rTEXT, <<"drop">>) }

\* filters that set a flag for the node they are given, with rules that
\* would take attributes and class names away
FlagOptions ==
  { With(allowAll, [filters_by_tag |-> Rule(rP, <<f>>),
                    allow_attributes_by_tag |-> Rule(rAny, <<rH>>),
                    allow_classes_by_tag |-> Rule(rP, <<rOne>>)]) :
      f \in {"setSkipAttributes", "putSkipAttributes", "setSkipClasses"} }

FilterOptions ==
  { With(allowAll, [filters_by_tag |-> fl]) : fl \in FilterLists }
  \cup FlagOptions
  \cup { With(allowAll, [filters_by_tag |-> Rule(rB, <<"toEmptyEM">>),
                         remove_empty |-> TRUE]),
         [filters_by_tag |-> Rule(rI, <<"toEM">>),
          allow_tags_direct |-> Rule(rAny, <<rI>>),
          remove_tags_deep |-> Rule(rP, <<rEM>>)] }

Options == RuleOptions \cup FilterOptions

(***************************************************************************)
(* The state machine: a caller builds a document, may set side-table       *)
(* entries, and calls sanitizeChildNodes / sanitizeNode.                    *)
(***************************************************************************)
VARIABLES world, pre, call, log, err, ncalls, marks

vars == <<world, pre, call, log, err, ncalls, marks>>

\* the number of side-table entries the caller has set
nmarks == Len(marks)

Flags == {"skip", "skip_filters", "skip_classes", "skip_attributes"}

NoCall == [childrenOnly |-> TRUE, ctx |-> 0, options |-> NoOptions,
           docOk |-> TRUE, nodeOk |-> TRUE]

Init ==
  /\ \E c \in Contents :
       LET nodes == Document(c)
       IN world = [nodes |-> nodes, propMap |-> [n \in 1..Len(nodes) |-> 0],
                   propObjs |-> <<>>]
  /\ pre = world
  /\ call = NoCall
  /\ log = <<>>
  /\ err = "none"
  /\ ncalls = 0
  /\ marks = <<>>

\* nodePropertyMap.set(n, { flag: true }) by the caller, before the first call
Mark(n, flag) ==
  /\ ncalls = 0
  /\ nmarks < MaxMarks
  /\ world.propMap[n] = 0
  /\ world' = [world EXCEPT
                 !.propObjs = Append(@, [NoProps EXCEPT ![flag] = "true"]),
                 !.propMap[n] = Len(world.propObjs) + 1]
  /\ marks' = Append(marks, [node |-> n, flag |-> flag])
  /\ UNCHANGED <<pre, call, log, err, ncalls>>

\* what the caller sees when the call c has returned or thrown in state st
Returned(st, c) ==
  /\ world' = [nodes |-> st.nodes, propMap |-> st.propMap,
               propObjs |-> st.propObjs]
  /\ pre' = world
  /\ call' = c
  /\ log' = st.log
  /\ err' = st.err
  /\ ncalls' = ncalls + 1
  /\ UNCHANGED marks

Run(c) ==
  Returned(sanitizeDom(world, c.docOk, c.nodeOk, c.ctx, c.options,
                       c.childrenOnly), c)

\* the option sets tried on a document whose side table has entries
MarkOptions ==
  { NoOptions,
    allowAll,
    With(allowAll, [remove_empty |-> TRUE]),
    With(allowAll, [allow_attributes_by_tag |-> Rule(rAny, <<rH>>)]),
    With(allowAll, [allow_classes_by_tag |-> Rule(rLowerB, <<rAny>>) \o Rule(rP, <<rOne>>)]),
    With(allowAll, [join_siblings |-> <<nB>>]),
    With(allowAll, [filters_by_tag |-> Rule(rB, <<"drop">>)]),
    With(allowAll, [filters_by_tag |-> Rule(rB, <<"keep", "drop">>)]) }
  \cup FlagOptions

InputOptions == IF nmarks = 0 THEN Options ELSE MarkOptions

\* sanitizeChildNodes(doc, node, opts, nodePropertyMap)
ProcessChildren(ctx, o) ==
  /\ ncalls = 0
  /\ o \in InputOptions
  /\ Run([childrenOnly |-> TRUE, ctx |-> ctx, options |-> o,
          docOk |-> TRUE, nodeOk |-> TRUE])

\* sanitizeNode(doc, node, opts, nodePropertyMap)
ProcessNode(ctx, o) ==
  /\ ncalls = 0
  /\ o \in InputOptions
  /\ world.nodes[ctx].type = "elem"
  /\ Run([childrenOnly |-> FALSE, ctx |-> ctx, options |-> o,
          docOk |-> TRUE, nodeOk |-> TRUE])

\* the option sets tried with arguments of the wrong interface
InvalidCallOptions ==
  { With(allowAll, [filters_by_tag |-> Rule(rB, <<"drop">>)]),
    With(allowAll, [remove_tags_direct |-> Rule(rP, <<rB>>)]) }

\* sanitizeChildNodes({}, node) / sanitizeChildNodes(doc, {}) and the same
\* for sanitizeNode: doc is an object without createElement (~docOk), or
\* the node argument is an object without normalize (~nodeOk) of which the
\* call could at most reach the tree through ctx
InvalidCall(docOk, nodeOk, childrenOnly, o) ==
  /\ ncalls = 0
  /\ ~(docOk /\ nodeOk)
  /\ o \in InvalidCallOptions
  /\ Run([childrenOnly |-> childrenOnly, ctx |-> 2, options |-> o,
          docOk |-> docOk, nodeOk |-> nodeOk])

\* the same call once more
Again ==
  /\ ncalls >= 1
  /\ ncalls < MaxCalls
  /\ Run(call)

Next ==
  \/ \E n \in 3..4, flag \in Flags : n <= Len(world.nodes) /\ Mark(n, flag)
  \/ \E o \in Options : ProcessChildren(2, o)
  \/ \E ctx \in {1, 3}, o \in Options : ProcessNode(ctx, o)
  \/ \E docOk \in BOOLEAN, nodeOk \in BOOLEAN, childrenOnly \in BOOLEAN,
        o \in InvalidCallOptions : InvalidCall(docOk, nodeOk, childrenOnly, o)
  \/ Again

Spec == Init /\ [][Next]_vars

(***************************************************************************)
(* Vocabulary of the properties.                                           *)
(***************************************************************************)
Opts == precompileOptions(MergeOptions(call.options))

NameOf(n) == world.nodes[n].name

EventsOf(kind) == {i \in 1..Len(log) : log[i].ev = kind}

RuleBranches == {"remove", "flatten", "allow", "default"}

\* the rule-branch decisions of the last call
Decisions == {i \in EventsOf("branch") : log[i].info \in RuleBranches}

\* a direct/deep rule pair applied to a chain of ancestor names, nearest first
Hit(direct, deep, names, tag) ==
  \/ names # <<>> /\ matchesAny(direct, names[1], tag)
  \/ \E k \in 1..Len(names) : matchesAny(deep, names[k], tag)

RemoveHit(names, tag) == Hit(Opts.remove_tags_direct, Opts.remove_tags_deep, names, tag)
FlattenHit(names, tag) == Hit(Opts.flatten_tags_direct, Opts.flatten_tags_deep, names, tag)
AllowHit(names, tag) == Hit(Opts.allow_tags_direct, Opts.allow_tags_deep, names, tag)

FirstBranch(names, tag) ==
  CASE RemoveHit(names, tag) -> "remove"
    [] ~RemoveHit(names, tag) /\ FlattenHit(names, tag) -> "flatten"
    [] ~RemoveHit(names, tag) /\ ~FlattenHit(names, tag) /\ AllowHit(names, tag) -> "allow"
    [] OTHER -> "default"

Entered(n) == \E i \in EventsOf("enter") : log[i].node = n

EnteredUnder(n, parents) ==
  \E i \in EventsOf("enter") : log[i].node = n /\ log[i].parents = parents

NamesOf(ids) == [k \in 1..Len(ids) |-> NameOf(ids[k])]

RECURSIVE Tree(_, _)
\* the subtree of n without node identities
Tree(nodes, n) ==
  [name |-> nodes[n].name, text |-> nodes[n].text, attrs |-> nodes[n].attrs,
   classes |-> nodes[n].classes,
   kids |-> [k \in 1..Len(nodes[n].kids) |-> Tree(nodes, nodes[n].kids[k])]]

RECURSIVE Below(_, _)
\* the descendants of n
Below(nodes, n) ==
  UNION {{nodes[n].kids[k]} \cup Below(nodes, nodes[n].kids[k]) :
           k \in 1..Len(nodes[n].kids)}

(***************************************************************************)
(* C1: every element the engine decides on takes the first matching        *)
(* branch in the order remove, flatten, allow, default.  A node for which  *)
(* a remove rule matches ends detached with its subtree intact and         *)
(* unvisited; else, if a flatten rule matches, it ends detached and its    *)
(* children were processed under its own ancestor chain; else, if an       *)
(* allow rule matches, its children were processed with the node on top    *)
(* of the chain; else it is flattened.  (Flattening a node that has no     *)
(* parent does nothing: the node keeps its children, none is visited.)     *)
(***************************************************************************)
C1_PriorityOrder ==
  \A i \in Decisions :
    LET e == log[i]
        n == e.node
        expected == FirstBranch(e.names, NameOf(n))
    IN /\ e.info = expected
       /\ err = "none" =>
            /\ expected = "remove" =>
                 /\ world.nodes[n].parent = 0
                 /\ world.nodes[n].kids = e.kids
                 /\ \A k \in 1..Len(e.kids) : ~Entered(e.kids[k])
            /\ (expected \in {"flatten", "default"} /\ e.dpar # 0) =>
                 /\ world.nodes[n].parent = 0
                 /\ world.nodes[n].kids = <<>>
                 /\ \A k \in 1..Len(e.kids) : EnteredUnder(e.kids[k], e.parents)
            /\ (expected \in {"flatten", "default"} /\ e.dpar = 0) =>
                 /\ world.nodes[n].kids = e.kids
                 /\ \A k \in 1..Len(e.kids) : ~Entered(e.kids[k])
            /\ expected = "allow" =>
                 \A k \in 1..Len(e.kids) :
                   EnteredUnder(e.kids[k], <<n>> \o e.parents)

\* a node matched by a flatten rule and by an allow rule was flattened
C1_Witness ==
  /\ err = "none"
  /\ \E i \in Decisions :
       /\ FlattenHit(log[i].names, NameOf(log[i].node))
       /\ AllowHit(log[i].names, NameOf(log[i].node))
       /\ ~RemoveHit(log[i].names, NameOf(log[i].node))
       /\ log[i].info = "flatten"
       /\ log[i].kids # <<>>

TagOf(n) == IF world.nodes[n].type = "text" THEN nTEXT ELSE NameOf(n)

\* n existed before the last call
PreExisting(n) == n <= Len(pre.nodes)

\* the property object sanitizeNode finds for n when it enters n
PropsAtEntry(n) ==
  IF PreExisting(n) /\ pre.propMap[n] # 0 THEN pre.propObjs[pre.propMap[n]]
  ELSE NoProps

\* the attributes and class tokens n had before the last call (a node
\* made by a filter during the call is made without any)
AttrsBefore(n) == IF PreExisting(n) THEN pre.nodes[n].attrs ELSE <<>>
ClassesBefore(n) == IF PreExisting(n) THEN pre.nodes[n].classes ELSE <<>>

\* the property object sanitizeNode holds for the node of decision i, as
\* it is when the rule branch is chosen
PropsAtDecision(i) == log[i].data.props

\* the elements the last call kept by the allow branch
Allowed == {i \in Decisions : log[i].info = "allow"}

\* filter results other than the input node: replacements, and null
Replacements == {i \in EventsOf("result") : log[i].info \in {"node", "array"}}
NullResults == {i \in EventsOf("result") : log[i].info = "null"}

\* seq with the element old replaced by the elements of new
Subst(seq, old, new) ==
  IF ~Includes(seq, old) THEN seq
  ELSE LET k == IndexOf(seq, old)
       IN SubSeq(seq, 1, k - 1) \o new \o SubSeq(seq, k + 1, Len(seq))

\* R matches all of T, ignoring case: some alternative of R spans T
FullMatch(R, T) ==
  \E a \in 1..Len(R) : MatchHere(<<"^">> \o R[a] \o <<"$">>, 1, T, 1)

\* some entry of a rule has a key spanning name and a value spanning value
FullMatchesAny(rule, name, value) ==
  \E k \in 1..Len(rule) :
    /\ FullMatch(rule[k].key, name)
    /\ \E j \in 1..Len(rule[k].vals) : FullMatch(rule[k].vals[j], value)

\* the ancestor names the statement C3 speaks of: the true parent first
ParentChain(e) ==
  IF e.node # call.ctx THEN NamesOf(e.chain)
  ELSE IF e.dpar = 0 THEN <<>> ELSE <<NameOf(e.dpar)>>

KeptAbove(i) ==
  LET c == log[i].chain
      kept(k) == \E j \in 1..(i - 1) :
                   /\ log[j].ev = "branch" /\ log[j].info = "allow"
                   /\ log[j].node = c[k] /\ c[k] # call.ctx
      m == CHOOSE m \in 0..Len(c) :
             /\ \A k \in 1..m : kept(k)
             /\ m < Len(c) => ~kept(m + 1)
  IN SubSeq(c, 1, m)

C4_WholeStringMatch ==
  \A i \in Decisions :
    LET e == log[i]
        tag == NameOf(e.node)
        o == MergeOptions(call.options)
    IN (e.info = "remove") <=>
         \/ FullMatchesAny(o.remove_tags_direct, e.names[1], tag)
         \/ \E k \in 1..Len(e.names) :
              FullMatchesAny(o.remove_tags_deep, e.names[k], tag)

\* what the guard does for the replacements of filter result i
GuardOutcome(i) ==
  LET e == log[i]
  IN \A j \in 1..Len(e.data.res) :
       LET r == e.data.res[j]
       IN /\ (NameOf(r) = NameOf(e.node) /\ e.data.sf[j] = "undef")
               => err = "loop"
          /\ e.data.sf[j] # "undef"
               => \A k \in EventsOf("throw") : log[k].node # r

(***************************************************************************)
(* C5: a replacement with the tag name of the filtered node and without    *)
(* a defined skip_filters makes the call fail with the infinite-loop       *)
(* error; for a replacement whose skip_filters is defined (true or false)  *)
(* the guard raises nothing.                                               *)
(***************************************************************************)
C5_LoopGuard == \A i \in Replacements : GuardOutcome(i)

\* the same for the filters that are ordinary functions (they have a
\* prototype) applied to a node that has a parent
C5_FunctionFilterUnderParent ==
  \A i \in Replacements :
    (log[i].dpar # 0 /\ ~IsArrow(log[i - 1].info)) => GuardOutcome(i)

\* what follows filter result i, a node or an array other than the input
ReplacedInPlace(i) ==
  LET e == log[i]
      res == e.data.res
  IN /\ i < Len(log)
     /\ log[i + 1].ev = "replaced"
     /\ log[i + 1].sibs = Subst(e.sibs, e.node, res)
     /\ world.nodes[e.node].parent = 0
     /\ \A k \in EventsOf("filter") : k > i => log[k].node # e.node
     /\ err = "none" =>
          \A j \in 1..Len(res) :
            LET r == res[j]
                filters == getValuesForTagname(Opts.filters_by_tag, TagOf(r))
            IN /\ \E k \in EventsOf("enter") :
                    /\ k > i /\ log[k].node = r /\ log[k].idx = j - 1
                    /\ log[k].parents = e.parents /\ log[k].names = e.names
               /\ \E k \in EventsOf("branch") : k > i /\ log[k].node = r
               /\ (filters # <<>> /\ e.data.sf[j] # "true") =>
                    \E k \in EventsOf("filter") :
                      /\ log[k].node = r /\ log[k].pos = 1
                      /\ log[k].info = filters[1]

(***************************************************************************)
(* C6: when a filter returns a node or an array other than its input, the  *)
(* replacements stand where the input stood, in array order, the input is  *)
(* detached, no later filter is called on the input, and (if the call      *)
(* succeeds) every replacement went through sanitizeNode under the         *)
(* ancestor arrays of the input: its own filters first, then a branch.     *)
(***************************************************************************)
C6_ReplacementsInPlace == \A i \in Replacements : ReplacedInPlace(i)

\* the same for the input nodes that have a parent
C6_ReplacementsInPlaceUnderParent ==
  \A i \in Replacements :
    (log[i].dpar # 0 \/ log[i].data.res = <<>>) => ReplacedInPlace(i)

(***************************************************************************)
(* C7: a node for which a filter returned null ends detached with its      *)
(* subtree as it was (children, attributes, classes), no later filter of   *)
(* the list is called on it, it takes no rule branch, and none of its      *)
(* descendants is entered.                                                 *)
(***************************************************************************)
C7_NullRemovesSubtree ==
  \A i \in NullResults :
    LET e == log[i]
        n == e.node
    IN /\ world.nodes[n].parent = 0
       /\ world.nodes[n].kids = e.kids
       /\ PreExisting(n) => Tree(world.nodes, n) = Tree(pre.nodes, n)
       /\ \A k \in EventsOf("filter") : k > i => log[k].node # n
       /\ \A k \in EventsOf("branch") : log[k].node = n => log[k].info = "filtered"
       /\ \E k \in EventsOf("branch") : k > i /\ log[k].node = n
       /\ \A d \in Below(world.nodes, n) : ~Entered(d)

\* the first filter of a list of two returned null for an element that has
\* a child and a class attribute the allow branch would have stripped
C7_Witness ==
  \E i \in NullResults :
    LET n == log[i].node
    IN /\ log[i].pos = 1
       /\ Len(getValuesForTagname(Opts.filters_by_tag, TagOf(n))) = 2
       /\ world.nodes[n].kids # <<>>
       /\ Includes(world.nodes[n].attrs, nClass)
       /\ world.nodes[n].classes = <<>>

(***************************************************************************)
(* C8, as stated: after an element is kept by the allow branch without     *)
(* skip_attributes, its attributes are exactly the previous ones that are  *)
(* named class or match allow_attributes_by_tag for its tag.               *)
(***************************************************************************)
C8_ClassOrMatching ==
  \A i \in Allowed :
    LET n == log[i].node
    IN ~Truthy(PropsAtDecision(i).skip_attributes) =>
         world.nodes[n].attrs =
           SelectSeq(AttrsBefore(n),
             LAMBDA a : a = nClass
                        \/ matchesAny(Opts.allow_attributes_by_tag, NameOf(n), a))

(***************************************************************************)
(* C8, amended: after an element is kept by the allow branch without       *)
(* skip_attributes, its attributes other than class are exactly the        *)
(* previous ones that match allow_attributes_by_tag for its tag; the class *)
(* attribute is not touched by the attribute filter: it stays iff it was   *)
(* there and the class filter was skipped or left a token.                 *)
(***************************************************************************)
C8_AttributesFiltered ==
  \A i \in Allowed :
    LET n == log[i].node
        before == AttrsBefore(n)
        after == world.nodes[n].attrs
    IN ~Truthy(PropsAtDecision(i).skip_attributes) =>
         /\ Without(after, nClass) =
              SelectSeq(Without(before, nClass),
                LAMBDA a : matchesAny(Opts.allow_attributes_by_tag, NameOf(n), a))
         /\ Includes(after, nClass) <=>
              /\ Includes(before, nClass)
              /\ \/ Truthy(PropsAtDecision(i).skip_classes)
                 \/ \E k \in 1..Len(ClassesBefore(n)) :
                      matchesAny(Opts.allow_classes_by_tag, NameOf(n),
                                 ClassesBefore(n)[k])

\* a kept element had a matching attribute followed by two consecutive
\* attributes that do not match: the first stayed, both others are gone
C8_Witness ==
  \E i \in Allowed :
    LET n == log[i].node
        before == AttrsBefore(n)
        ok(a) == matchesAny(Opts.allow_attributes_by_tag, NameOf(n), a)
    IN /\ PreExisting(n) /\ ~Truthy(PropsAtEntry(n).skip_attributes)
       /\ \E k \in 1..(Len(before) - 1) :
            /\ before[k] # nClass /\ before[k + 1] # nClass
            /\ ~ok(before[k]) /\ ~ok(before[k + 1])
            /\ ~Includes(world.nodes[n].attrs, before[k])
            /\ ~Includes(world.nodes[n].attrs, before[k + 1])
       /\ \E k \in 1..Len(before) :
            before[k] # nClass /\ ok(before[k])
            /\ Includes(world.nodes[n].attrs, before[k])

(***************************************************************************)
(* C9: after an element is kept by the allow branch without skip_classes,  *)
(* its class tokens are exactly the previous ones that match               *)
(* allow_classes_by_tag for its tag, and it has a class attribute iff a    *)
(* token is left, whatever allow_attributes_by_tag says.                   *)
(***************************************************************************)
C9_ClassesFiltered ==
  \A i \in Allowed :
    LET n == log[i].node
    IN ~Truthy(PropsAtDecision(i).skip_classes) =>
         /\ world.nodes[n].classes =
              SelectSeq(ClassesBefore(n),
                LAMBDA c : matchesAny(Opts.allow_classes_by_tag, NameOf(n), c))
         /\ Includes(world.nodes[n].attrs, nClass) <=> world.nodes[n].classes # <<>>

\* in one call: an element lost one of two tokens and kept its class
\* attribute although no attribute rule matches the name class; another
\* element was left without tokens and lost its class attribute
C9_Witness ==
  /\ \E i \in Allowed :
       LET n == log[i].node
       IN /\ PreExisting(n) /\ ~Truthy(PropsAtEntry(n).skip_classes)
          /\ Len(ClassesBefore(n)) = 2
          /\ Len(world.nodes[n].classes) = 1
          /\ Includes(world.nodes[n].attrs, nClass)
          /\ ~matchesAny(Opts.allow_attributes_by_tag, NameOf(n), nClass)
  /\ \E i \in Allowed :
       LET n == log[i].node
       IN /\ PreExisting(n) /\ ~Truthy(PropsAtEntry(n).skip_classes)
          /\ Includes(AttrsBefore(n), nClass)
          /\ ~Includes(world.nodes[n].attrs, nClass)

(***************************************************************************)
(* C10: with remove_empty (and no side-table entries), when                *)
(* sanitizeChildNodes returns, every element below the context node that   *)
(* has no child node has a tag of allowed_empty_tags, and the empty-node   *)
(* pass removed no element that had a child node.                          *)
(***************************************************************************)
C10_NoEmptyElementRemains ==
  (/\ ncalls >= 1 /\ call.childrenOnly /\ err = "none" /\ nmarks = 0
   /\ "remove_empty" \in DOMAIN call.options /\ call.options.remove_empty) =>
    /\ \A n \in Below(world.nodes, call.ctx) :
         (world.nodes[n].type = "elem" /\ world.nodes[n].kids = <<>>)
           => Includes(Opts.allowed_empty_tags, NameOf(n))
    /\ \A i \in EventsOf("empty") : log[i].kids = <<>>

(***************************************************************************)
(* Vocabulary of C11 .. C20.                                               *)
(***************************************************************************)
RECURSIVE Leaves(_, _)
\* the text nodes below n, by identity, in document order
Leaves(nodes, n) ==
  IF nodes[n].type = "text" THEN <<n>>
  ELSE LET RECURSIVE cat(_)
           cat(k) == IF k > Len(nodes[n].kids) THEN <<>>
                     ELSE Leaves(nodes, nodes[n].kids[k]) \o cat(k + 1)
       IN cat(1)

\* the last call did nothing but keep every element and join siblings
JoinOnly ==
  /\ ncalls >= 1 /\ err = "none"
  /\ \E tags \in {<<nB>>, <<nB, nI>>} :
       call.options = With(allowAll, [join_siblings |-> tags])

\* the elements the joiner merged into an earlier sibling
Merged == {log[i].pos : i \in EventsOf("join")}

(***************************************************************************)
(* C11: a call that keeps every element and joins siblings loses and       *)
(* reorders nothing: the text nodes below the context node, whitespace     *)
(* included, are the same and in the same document order as before, and    *)
(* the only nodes that left the tree are the elements merged into the      *)
(* first element of their run.                                             *)
(***************************************************************************)
C11_JoinKeepsChildren ==
  JoinOnly =>
    /\ Leaves(world.nodes, call.ctx) = Leaves(pre.nodes, call.ctx)
    /\ \A n \in Below(pre.nodes, call.ctx) :
         n \in Below(world.nodes, call.ctx) \/ n \in Merged

\* b directly follows a in the child list
NextTo(list, a, b) ==
  \E k \in 1..(Len(list) - 1) : list[k] = a /\ list[k + 1] = b

\* exactly one node lies between a and b, a whitespace-only text node
AcrossSpace(list, a, b) ==
  \E k \in 1..(Len(list) - 2) :
    /\ list[k] = a /\ list[k + 2] = b
    /\ world.nodes[list[k + 1]].type = "text"
    /\ world.nodes[list[k + 1]].text = "ws"

(***************************************************************************)
(* C12: every merge step of the joiner takes two elements of the same tag  *)
(* name, listed in join_siblings, that are adjacent or separated by        *)
(* exactly one whitespace-only text node in the child list the joiner      *)
(* iterates over; when the first of the two is a child of the parent at    *)
(* that moment, the same is true in the parent's current child list, and   *)
(* a step never takes a child of the parent into an element that is not    *)
(* one.  So elements separated by other text and elements of tags not      *)
(* listed are never merged.                                                *)
(***************************************************************************)
C12_MergeOnlyJoinable ==
  \A i \in EventsOf("join") :
    LET a == log[i].node
        b == log[i].pos
        d == log[i].data
    IN /\ world.nodes[a].type = "elem" /\ world.nodes[b].type = "elem"
       /\ NameOf(a) = NameOf(b)
       /\ Includes(Opts.join_siblings, NameOf(a))
       /\ NextTo(d.siblings, a, b) \/ AcrossSpace(d.siblings, a, b)
       /\ Includes(d.before, a) =>
            NextTo(d.before, a, b) \/ AcrossSpace(d.before, a, b)
       /\ Includes(d.before, b) => Includes(d.before, a)

\* one call merged two listed elements and left two listed elements of the
\* same tag apart that have a text node other than white space between them
C12_Witness ==
  /\ JoinOnly
  /\ \E i \in EventsOf("join") : Includes(log[i].data.before, log[i].node)
  /\ LET kids == world.nodes[call.ctx].kids
     IN \E k \in 1..(Len(kids) - 2) :
          /\ world.nodes[kids[k]].type = "elem"
          /\ NameOf(kids[k]) = NameOf(kids[k + 2])
          /\ Includes(Opts.join_siblings, NameOf(kids[k]))
          /\ world.nodes[kids[k + 1]].type = "text"
          /\ world.nodes[kids[k + 1]].text # "ws"

\* the last call had remove_empty switched on
RemoveEmpty == "remove_empty" \in DOMAIN Opts /\ Opts.remove_empty

\* the nodes the last call left alone because their skip flag was set
Skipped == {i \in EventsOf("branch") : log[i].info = "skip"}

\* what C13 promises for the node of the skip event i
LeftAsIs(i) ==
  LET n == log[i].node
  IN /\ world.nodes[n].parent # 0 <=> log[i].dpar # 0
     /\ Tree(world.nodes, n) = Tree(pre.nodes, n)
     /\ \A j \in EventsOf("filter") : log[j].node # n
     /\ \A m \in Below(pre.nodes, n) :
          ~Entered(m) /\ \A j \in EventsOf("filter") : log[j].node # m
     /\ world.propObjs[world.propMap[n]].skip = "undef"

(***************************************************************************)
(* C13: a node whose skip flag is set when the engine reaches it is, after *)
(* the call and for every option set, still attached with the same         *)
(* attributes, class tokens and subtree as before the call; no filter was  *)
(* invoked on it or below it, and its skip flag is cleared.                *)
(***************************************************************************)
C13_SkipUntouched ==
  err = "none" => \A i \in Skipped : LeftAsIs(i)

(***************************************************************************)
(* C13, the part that holds: the same for option sets without              *)
(* remove_empty and join_siblings.                                         *)
(***************************************************************************)
C13_SkipUntouchedWithoutPruning ==
  (err = "none" /\ ~RemoveEmpty /\ Opts.join_siblings = <<>>) =>
    \A i \in Skipped : LeftAsIs(i)

\* the entries of the engine at which the node's skip flag was not set
Reached == {i \in EventsOf("enter") : ~Truthy(log[i].data.skip)}

\* the filters the last call's options hold for the node n
FiltersFor(n) == getValuesForTagname(Opts.filters_by_tag, TagOf(n))

\* filter number k was invoked on the node n after the log position i
InvokedAfter(i, n, k) ==
  \E j \in EventsOf("filter") : j > i /\ log[j].node = n /\ log[j].pos = k

\* the caller set the flag for n before the first call
Marked(n, flag) == \E k \in 1..Len(marks) : marks[k] = [node |-> n, flag |-> flag]

(***************************************************************************)
(* C14: when the engine reaches a node whose skip_filters flag is truthy,  *)
(* no filter is invoked on the node in this call, the flag is cleared, and *)
(* the node goes on to the rule branches (an element takes the first       *)
(* matching one, a text node is kept).  When it reaches a node whose flag  *)
(* is not set, the first filter for its tag is invoked; so is it in a      *)
(* later call on a node whose flag an earlier call has consumed.           *)
(***************************************************************************)
C14_SkipFiltersOnce ==
  /\ \A i \in Reached :
       LET n == log[i].node
       IN IF Truthy(log[i].data.skip_filters)
          THEN /\ \A j \in EventsOf("filter") : log[j].node # n
               /\ world.propObjs[world.propMap[n]].skip_filters = "undef"
               /\ \E j \in EventsOf("branch") :
                    /\ j > i /\ log[j].node = n
                    /\ log[j].info =
                         IF world.nodes[n].type = "text" THEN "text"
                         ELSE FirstBranch(log[j].names, NameOf(n))
          ELSE FiltersFor(n) # <<>> => InvokedAfter(i, n, 1)
  /\ ncalls >= 2 =>
       \A i \in Reached :
         (/\ Marked(log[i].node, "skip_filters")
          /\ ~Truthy(PropsAtEntry(log[i].node).skip_filters)
          /\ FiltersFor(log[i].node) # <<>>)
           => InvokedAfter(i, log[i].node, 1)

\* the second call invoked the filter on a node that the first call, with
\* the flag set, had kept without invoking it
C14_Witness ==
  /\ ncalls = 2
  /\ \E i \in Reached :
       LET n == log[i].node
       IN /\ Marked(n, "skip_filters")
          /\ pre.nodes[n].parent # 0
          /\ pre.propMap[n] # 0
          /\ pre.propObjs[pre.propMap[n]].skip_filters = "undef"
          /\ \E j \in EventsOf("filter") : log[j].node = n /\ log[j].info = "drop"
          /\ world.nodes[n].parent = 0

\* the filter calls of the last call that returned the node they were given
SameResults == {i \in EventsOf("result") : log[i].info = "same"}

\* the log entry after i is the rule-branch (or text) decision for n
BranchNext(i, n) ==
  /\ i < Len(log)
  /\ log[i + 1].ev = "branch" /\ log[i + 1].node = n
  /\ log[i + 1].info = IF world.nodes[n].type = "text" THEN "text"
                       ELSE FirstBranch(log[i + 1].names, NameOf(n))

\* the log entry after i is the invocation of filter number k on n
FilterNext(i, n, k) ==
  /\ i < Len(log)
  /\ log[i + 1].ev = "filter" /\ log[i + 1].node = n /\ log[i + 1].pos = k

(***************************************************************************)
(* C15: the filters for a node's tag are invoked in list order: filter 1   *)
(* right after the node is entered, filter k + 1 only right after filter   *)
(* k has returned the same node.  When filter k returns the same node and  *)
(* skip_filters is then set for it, no later filter is invoked on the      *)
(* node, the flag is cleared and the node goes on to the rule branches;    *)
(* when the flag is not set, filter k + 1 is invoked next (the rule        *)
(* branches, if k was the last).                                           *)
(***************************************************************************)
C15_FiltersInListOrder ==
  /\ \A j \in EventsOf("filter") :
       LET n == log[j].node
           k == log[j].pos
       IN /\ k <= Len(FiltersFor(n)) /\ log[j].info = FiltersFor(n)[k]
          /\ j > 1 /\ log[j - 1].node = n
          /\ IF k = 1 THEN log[j - 1].ev = "enter"
             ELSE j - 1 \in SameResults /\ log[j - 1].pos = k - 1
  /\ \A i \in SameResults :
       LET n == log[i].node
           k == log[i].pos
       IN IF Truthy(log[i].data.skip_filters)
          THEN /\ \A j \in EventsOf("filter") : (j > i) => log[j].node # n
               /\ world.propObjs[world.propMap[n]].skip_filters = "undef"
               /\ BranchNext(i, n)
          ELSE IF k < Len(FiltersFor(n)) THEN FilterNext(i, n, k + 1)
          ELSE BranchNext(i, n)

\* filters [keep, skipLater, drop]: the second ran right after the first
\* returned the node, the third never ran, and the node was kept
C15_Witness ==
  \E i \in SameResults :
    LET n == log[i].node
    IN /\ log[i].pos = 2 /\ Truthy(log[i].data.skip_filters)
       /\ Len(FiltersFor(n)) = 3
       /\ i - 2 \in SameResults /\ log[i - 2].node = n
       /\ ~Truthy(log[i - 2].data.skip_filters)
       /\ BranchNext(i, n) /\ log[i + 1].info = "allow"
       /\ world.nodes[n].parent # 0

\* the property object the engine fetched when it entered n in the last call
EntryProps(n) ==
  log[CHOOSE i \in EventsOf("enter") : log[i].node = n].data

\* the attributes other than class
NonClass(attrs) == SelectSeq(attrs, LAMBDA a : a # nClass)

\* the value the flag has in n's side-table entry after the last call
FlagNow(n, flag) ==
  IF world.propMap[n] = 0 THEN "undef" ELSE world.propObjs[world.propMap[n]][flag]

(***************************************************************************)
(* C16, as stated: every flag the engine consulted in a call is no longer  *)
(* set after the call: skip at the entry of a node, skip_filters where     *)
(* the node was not skipped, skip_classes and skip_attributes where the    *)
(* node was kept by the allow branch.                                      *)
(***************************************************************************)
C16_EveryFlagOneShot ==
  /\ \A i \in EventsOf("enter") :
       /\ ~Truthy(FlagNow(log[i].node, "skip"))
       /\ i \in Reached => ~Truthy(FlagNow(log[i].node, "skip_filters"))
  /\ \A i \in Allowed :
       /\ ~Truthy(FlagNow(log[i].node, "skip_classes"))
       /\ ~Truthy(FlagNow(log[i].node, "skip_attributes"))

\* the side-table entry of n before the last call was the object the
\* caller had stored for it
StillMarked(n) ==
  \E k \in 1..Len(marks) : marks[k].node = n /\ pre.propMap[n] = k

(***************************************************************************)
(* C16, amended: skip and skip_filters are one-shot, skip_classes and      *)
(* skip_attributes are not.  After a call that entered a node, its skip    *)
(* flag is not set, and its skip_filters flag is not set unless the node   *)
(* was skipped.  A node kept by the allow branch with skip_classes         *)
(* (skip_attributes) set keeps its class tokens (its attributes other      *)
(* than class) and the flag stays set in its property object, so the next  *)
(* call leaves them alone again while that object is the node's entry.     *)
(***************************************************************************)
C16_SkipFlagsOneShotOthersStay ==
  /\ \A i \in EventsOf("enter") :
       /\ ~Truthy(FlagNow(log[i].node, "skip"))
       /\ i \in Reached => ~Truthy(FlagNow(log[i].node, "skip_filters"))
  /\ \A i \in Allowed :
       LET n == log[i].node
       IN /\ Truthy(PropsAtDecision(i).skip_classes) =>
               /\ Truthy(world.propObjs[log[i].data.obj].skip_classes)
               /\ world.nodes[n].classes = ClassesBefore(n)
          /\ Truthy(PropsAtDecision(i).skip_attributes) =>
               /\ Truthy(world.propObjs[log[i].data.obj].skip_attributes)
               /\ NonClass(world.nodes[n].attrs) = NonClass(AttrsBefore(n))
  /\ ncalls = 2 =>
       \A i \in Allowed :
         LET n == log[i].node
         IN /\ (Marked(n, "skip_classes") /\ StillMarked(n)) =>
                 Truthy(PropsAtDecision(i).skip_classes)
            /\ (Marked(n, "skip_attributes") /\ StillMarked(n)) =>
                 Truthy(PropsAtDecision(i).skip_attributes)

\* after two calls an element flagged skip_attributes by the caller still
\* has an attribute that allow_attributes_by_tag does not match
C16_Witness ==
  /\ ncalls = 2
  /\ \E i \in Allowed :
       LET n == log[i].node
       IN /\ Marked(n, "skip_attributes")
          /\ Truthy(FlagNow(n, "skip_attributes"))
          /\ \E k \in 1..Len(world.nodes[n].attrs) :
               /\ world.nodes[n].attrs[k] # nClass
               /\ ~matchesAny(Opts.allow_attributes_by_tag, NameOf(n),
                              world.nodes[n].attrs[k])

(***************************************************************************)
(* C17: at every filter invocation on a node that has a parent, the        *)
(* siblingIndex passed to the filter is the 0-based position of the node   *)
(* among the children its parent has at that moment.                       *)
(***************************************************************************)
C17_SiblingIndexIsPosition ==
  \A j \in EventsOf("filter") :
    log[j].dpar # 0 =>
      /\ log[j].idx + 1 <= Len(log[j].sibs)
      /\ log[j].sibs[log[j].idx + 1] = log[j].node

(***************************************************************************)
(* C17, what the engine passes instead: the index the node had in the      *)
(* list it was taken from, which is the snapshot of the parent's children  *)
(* taken before the first of them was processed, or the array of nodes a   *)
(* filter returned; 0 for the context node of sanitizeNode.                *)
(***************************************************************************)
C17_SiblingIndexIsListIndex ==
  \A j \in EventsOf("filter") :
    LET n == log[j].node
    IN \/ \E c \in EventsOf("child") :
            c < j /\ log[c].node = n /\ log[c].idx = log[j].idx
       \/ \E r \in EventsOf("result") :
            /\ r < j /\ log[r].info \in {"node", "array"}
            /\ log[j].idx + 1 <= Len(log[r].data.res)
            /\ log[r].data.res[log[j].idx + 1] = n
       \/ n = call.ctx /\ ~call.childrenOnly /\ log[j].idx = 0

\* the entries of the engine and the filter invocations of the last call
Visits == EventsOf("enter") \cup EventsOf("filter")

\* the node of event i is below the context node at that moment
BelowContext(i) ==
  log[i].chain # <<>> /\ log[i].chain[Len(log[i].chain)] = call.ctx

C19_InterfaceErrorFirst ==
  ncalls >= 1 =>
    /\ ~call.docOk => err = "doc"
    /\ (call.docOk /\ ~call.nodeOk) => err = "node"
    /\ ~(call.docOk /\ call.nodeOk) => log = <<>> /\ world = pre
    /\ (call.docOk /\ call.nodeOk) => err \notin {"doc", "node"}

\* both arguments invalid, options with a filter for a tag in the tree
C19_Witness ==
  /\ ncalls >= 1 /\ ~call.docOk /\ ~call.nodeOk /\ err = "doc"
  /\ Opts.filters_by_tag # <<>>
  /\ \E n \in Below(world.nodes, 2) : FiltersFor(n) # <<>>

\* the tags of the documented default of remove_tags_deep
DocumentedRemoved ==
  { <<"S", "T", "Y", "L", "E">>, nSCRIPT,
    <<"T", "E", "X", "T", "A", "R", "E", "A">>,
    <<"N", "O", "S", "C", "R", "I", "P", "T">> }

(***************************************************************************)
(* C20: after a call without a remove_tags_deep option, every STYLE,       *)
(* SCRIPT, TEXTAREA and NOSCRIPT element that was below the context node   *)
(* is gone from below it together with everything it contained.            *)
(***************************************************************************)
C20_DefaultRemoveTagsDeep ==
  (/\ ncalls >= 1 /\ err = "none" /\ call.childrenOnly
   /\ "remove_tags_deep" \notin DOMAIN call.options) =>
    \A n \in Below(pre.nodes, call.ctx) :
      pre.nodes[n].name \in DocumentedRemoved =>
        /\ n \notin Below(world.nodes, call.ctx)
        /\ \A m \in Below(pre.nodes, n) : m \notin Below(world.nodes, call.ctx)

(***************************************************************************)
(* Vocabulary of C21 .. C30.                                               *)
(***************************************************************************)
\* the decision that led to the flattening recorded by event f
FlattenDecision(f) ==
  CHOOSE i \in Decisions :
    /\ i < f /\ log[i].node = log[f].node
    /\ \A j \in Decisions : (j < f /\ log[j].node = log[f].node) => j <= i

\* the members of seq that are in set, in the order of seq
RECURSIVE Restrict(_, _)
Restrict(seq, set) ==
  IF seq = <<>> THEN <<>>
  ELSE IF Head(seq) \in set THEN <<Head(seq)>> \o Restrict(Tail(seq), set)
  ELSE Restrict(Tail(seq), set)

Range(seq) == {seq[k] : k \in 1..Len(seq)}

\* flattening event f put the processed children where the node was, kept
\* their order and the neighbours, and the children saw the chain parents
FlattenedInPlace(f) ==
  LET b == log[FlattenDecision(f)]
      n == log[f].node
      contents == log[f].data.contents
  IN /\ b.info \in {"flatten", "default"}
     /\ world.nodes[n].parent = 0 \/ err # "none"
     /\ log[f].kids = <<>>
     /\ log[f].chain = <<>>
     /\ log[f].sibs = Subst(b.sibs, n, contents)
     /\ Restrict(contents, Range(b.kids)) = Restrict(b.kids, Range(contents))
     /\ \A k \in 1..Len(b.kids) : EnteredUnder(b.kids[k], b.parents)

Joinable(kids, tags) ==
  \E k \in 1..(Len(kids) - 1) :
    /\ world.nodes[kids[k]].type = "elem"
    /\ Includes(tags, NameOf(kids[k]))
    /\ \/ /\ world.nodes[kids[k + 1]].type = "elem"
          /\ NameOf(kids[k + 1]) = NameOf(kids[k])
       \/ /\ k + 2 <= Len(kids)
          /\ world.nodes[kids[k + 1]].type = "text"
          /\ world.nodes[kids[k + 1]].text = "ws"
          /\ world.nodes[kids[k + 2]].type = "elem"
          /\ NameOf(kids[k + 2]) = NameOf(kids[k])

(***************************************************************************)
(* C22: whenever joinSiblings returns, the children of its parent node     *)
(* are at a fixed point: no child element with a tag in join_siblings is   *)
(* directly followed by an element of the same tag, nor by a               *)
(* whitespace-only text node followed by an element of the same tag.       *)
(***************************************************************************)
C22_JoinFixedPoint ==
  \A i \in EventsOf("joined") : ~Joinable(log[i].kids, Opts.join_siblings)

\* joinSiblings returned after a merge and a restart, leaving several
\* children of which two are elements named in join_siblings
C22_Witness ==
  /\ err = "none"
  /\ \E i \in EventsOf("joined"), k \in EventsOf("join") :
       /\ k < i /\ log[k].dpar = log[i].node
       /\ Len(log[i].kids) >= 3
       /\ \E c, d \in 1..Len(log[i].kids) :
            /\ c < d
            /\ Includes(Opts.join_siblings, NameOf(log[i].kids[c]))
            /\ Includes(Opts.join_siblings, NameOf(log[i].kids[d]))

\* two neighbours in the child list kids are elements of one tag named in tags
AdjacentSameTag(kids, tags) ==
  \E k \in 1..(Len(kids) - 1) :
    /\ world.nodes[kids[k]].type = "elem" /\ world.nodes[kids[k + 1]].type = "elem"
    /\ NameOf(kids[k]) = NameOf(kids[k + 1])
    /\ Includes(tags, NameOf(kids[k]))

(***************************************************************************)
(* C23: after a call that joins siblings, nothing more is joinable inside  *)
(* a merged element either: the children of an element that took in the    *)
(* children of a later sibling, and that is still below the context node,  *)
(* contain no two adjacent elements of one tag named in join_siblings.     *)
(***************************************************************************)
C23_NothingJoinableInsideMerged ==
  (ncalls >= 1 /\ err = "none") =>
    \A i \in EventsOf("join") :
      log[i].node \in Below(world.nodes, call.ctx) =>
        ~AdjacentSameTag(world.nodes[log[i].node].kids, Opts.join_siblings)

\* the filter lists fs with every filter that returns an empty array
\* replaced by the filter that returns null
NullForEmpty(fs) ==
  [k \in 1..Len(fs) |->
     [key |-> fs[k].key,
      vals |-> [j \in 1..Len(fs[k].vals) |->
                  IF fs[k].vals[j] = "none" THEN "drop" ELSE fs[k].vals[j]]]]

\* the last call had a filter that returns an empty array
EmptyArrayCall ==
  /\ ncalls >= 1
  /\ "filters_by_tag" \in DOMAIN call.options
  /\ \E k \in 1..Len(call.options.filters_by_tag) :
       Includes(call.options.filters_by_tag[k].vals, "none")

\* the last call made with null in the place of every empty array
WithNullForEmpty ==
  sanitizeDom(pre, call.docOk, call.nodeOk, call.ctx,
              With(call.options,
                   [filters_by_tag |-> NullForEmpty(call.options.filters_by_tag)]),
              call.childrenOnly)

\* the filter results of the last call that were an empty array
EmptyResults ==
  {i \in EventsOf("result") : log[i].info = "array" /\ log[i].data.res = <<>>}

\* what the call did to which node, in order
Steps(l) ==
  [i \in 1..Len(l) |-> [ev |-> l[i].ev, node |-> l[i].node, idx |-> l[i].idx]]

(***************************************************************************)
(* C24: a filter that returns an empty array acts like one that returns    *)
(* null.  The node is detached with its subtree, no later filter is        *)
(* invoked on it and no rule is applied to it, no error is raised, and     *)
(* the traversal goes on with the next sibling; the call ends with the     *)
(* same tree, side table and outcome, after the same steps, as the call    *)
(* whose filter returns null instead.                                      *)
(***************************************************************************)
C24_EmptyArrayLikeNull ==
  EmptyArrayCall =>
    /\ err = "none"
    /\ world.nodes = WithNullForEmpty.nodes
    /\ world.propMap = WithNullForEmpty.propMap
    /\ world.propObjs = WithNullForEmpty.propObjs
    /\ err = WithNullForEmpty.err
    /\ Steps(log) = Steps(WithNullForEmpty.log)
    /\ \A i \in EmptyResults :
         LET n == log[i].node
             k == IndexOf(log[i].sibs, n)
         IN /\ world.nodes[n].parent = 0
            /\ Tree(world.nodes, n) = Tree(pre.nodes, n)
            /\ \A j \in (i + 1)..Len(log) :
                 log[j].node = n =>
                   /\ log[j].ev \notin {"enter", "filter", "result"}
                   /\ j \notin Decisions
            /\ (log[i].dpar # 0 /\ n # call.ctx /\ k < Len(log[i].sibs)) =>
                 \E j \in (i + 1)..Len(log) :
                   log[j].ev = "enter" /\ log[j].node = log[i].sibs[k + 1]

\* an empty array was returned for a node that has a subtree, a later
\* filter in its list and a next sibling
C24_Witness ==
  /\ err = "none"
  /\ \E i \in EmptyResults :
       /\ log[i].dpar # 0 /\ log[i].node # call.ctx
       /\ log[i].kids # <<>>
       /\ IndexOf(log[i].sibs, log[i].node) < Len(log[i].sibs)
       /\ Len(FiltersFor(log[i].node)) > log[i].pos

\* the results "same node" of the last call that came from filter f
SameNodeFrom(f) ==
  {i \in EventsOf("result") :
     /\ log[i].info = "same"
     /\ FiltersFor(log[i].node)[log[i].pos] = f}

\* the node of event i was kept by the allow branch afterwards
AllowedAfter(i) == \E j \in Allowed : j > i /\ log[j].node = log[i].node

(***************************************************************************)
(* C25: if a filter sets skip_attributes (or skip_classes) in the side     *)
(* table for the node it is filtering and returns that node, and the       *)
(* allow branch is then taken, the node keeps its attributes (its class    *)
(* names) in that pass, whether or not the node had a side-table entry     *)
(* before the filter ran.                                                  *)
(***************************************************************************)
C25_FilterFlagSuppresses ==
  /\ \A i \in SameNodeFrom("setSkipAttributes") \cup SameNodeFrom("putSkipAttributes") :
       AllowedAfter(i) =>
         NonClass(world.nodes[log[i].node].attrs) = NonClass(AttrsBefore(log[i].node))
  /\ \A i \in SameNodeFrom("setSkipClasses") :
       AllowedAfter(i) =>
         world.nodes[log[i].node].classes = ClassesBefore(log[i].node)

\* every replacement a filter returned in the last call that has the tag
\* of the filtered node had skip_filters = true declared for it
SameTagDeclaredTrue ==
  \A i \in Replacements :
    \A j \in 1..Len(log[i].data.res) :
      NameOf(log[i].data.res[j]) = NameOf(log[i].node) =>
        log[i].data.sf[j] = "true"

OtherTagUnfiltered ==
  \A i \in Replacements :
    \A j \in 1..Len(log[i].data.res) :
      NameOf(log[i].data.res[j]) # NameOf(log[i].node) =>
        FiltersFor(log[i].data.res[j]) = <<>>

NoFilterCall == ncalls >= 1 /\ "filters_by_tag" \notin DOMAIN call.options

\* how many elements were below the context node before the last call
ElementsBelow ==
  Cardinality({n \in Below(pre.nodes, call.ctx) : pre.nodes[n].type = "elem"})

(***************************************************************************)
(* C27: without filters, whatever remove, flatten and allow rules,         *)
(* remove_empty and join_siblings are given, sanitizeNode and              *)
(* sanitizeChildNodes terminate: no error is raised, only nodes of the     *)
(* tree at or below the context node are visited and each at most once,    *)
(* and the joiner with its restarts ends after finitely many joins: at     *)
(* most e * (e - 1) / 2 for e elements below the context node.             *)
(***************************************************************************)
C27_TerminatesWithoutFilters ==
  (NoFilterCall /\ call.docOk /\ call.nodeOk) =>
    /\ err = "none"
    /\ \A i \in EventsOf("enter") :
         /\ PreExisting(log[i].node)
         /\ log[i].node \in Below(pre.nodes, call.ctx) \cup {call.ctx}
         /\ \A j \in EventsOf("enter") : log[j].node = log[i].node => i = j
    /\ 2 * Cardinality(EventsOf("join")) <= ElementsBelow * (ElementsBelow - 1)
    /\ Cardinality(EventsOf("joined")) <=
         Cardinality(EventsOf("enter")) + 1 + Cardinality(EventsOf("join"))

\* a call without filters in which the joiner joined, restarted, and
\* joined again when the restart had returned
C27_Witness ==
  /\ NoFilterCall /\ err = "none"
  /\ \E i \in EventsOf("joined") :
       \E j, k \in EventsOf("join") : j < i /\ i < k

\* the guard's errors of the last call
GuardThrows == {t \in EventsOf("throw") : log[t].info = "loop"}

\* the filter result whose element the guard refused at event t
ResultOf(t) ==
  CHOOSE i \in Replacements :
    /\ i < t /\ log[i].node = log[t].pos
    /\ \A j \in Replacements : (j < t /\ log[j].node = log[t].pos) => j <= i

\* between the events i and t the node n was entered and each filter of
\* its list that the engine reached was invoked on it
ProcessedBetween(n, i, t) ==
  /\ \E e \in EventsOf("enter") : i < e /\ e < t /\ log[e].node = n
  /\ (FiltersFor(n) # <<>> /\ ~Truthy(EntryProps(n).skip)
      /\ ~Truthy(EntryProps(n).skip_filters)) =>
       \E f \in EventsOf("filter") : i < f /\ f < t /\ log[f].node = n
  /\ \E b \in EventsOf("branch") : i < b /\ b < t /\ log[b].node = n

(***************************************************************************)
(* C28: when the infinite-loop error is raised for one element of a        *)
(* filter's result, the tree has been changed and stays changed: the       *)
(* filtered node is detached, every returned replacement has been          *)
(* inserted under the node's parent, the replacements before the           *)
(* offending one in the array have been fully processed (entered, their    *)
(* own filters invoked, a branch taken), and nothing is processed after    *)
(* the error.                                                              *)
(***************************************************************************)
C28_NoRollbackOnGuardError ==
  \A t \in GuardThrows :
    LET i == ResultOf(t)
        res == log[i].data.res
        j == log[t].idx + 1
    IN /\ err = "loop"
       /\ t = Len(log)
       /\ res[j] = log[t].node
       /\ world.nodes[log[t].pos].parent = 0
       /\ ~Includes(world.nodes[log[i].dpar].kids, log[t].pos)
       /\ \A k \in j..Len(res) :
            /\ world.nodes[res[k]].parent = log[i].dpar
            /\ Includes(world.nodes[log[i].dpar].kids, res[k])
            /\ ~Entered(res[k])
       /\ \A k \in 1..(j - 1) : ProcessedBetween(res[k], i, t)
       /\ world.nodes # pre.nodes

\* the guard refused the second element of a result after the first one
\* had its own filter invoked
C28_Witness ==
  /\ err = "loop"
  /\ \E t \in GuardThrows :
       /\ log[t].idx >= 1
       /\ \E f \in EventsOf("filter") :
            /\ ResultOf(t) < f /\ f < t
            /\ log[f].node = log[ResultOf(t)].data.res[1]

\* the last call had no filters, took no remove branch, did not prune
\* empty elements and did not join siblings
RulesOnlyCall ==
  /\ NoFilterCall /\ err = "none"
  /\ \A i \in Decisions : log[i].info # "remove"
  /\ ~RemoveEmpty
  /\ Opts.join_siblings = <<>>

\* no text node of the tree was altered by the last call
TextUnaltered ==
  \A n \in 1..Len(pre.nodes) :
    pre.nodes[n].type = "text" => world.nodes[n].text = pre.nodes[n].text

(***************************************************************************)
(* C29, as stated: with no filters, no remove rule matching a node,        *)
(* remove_empty off and join_siblings empty, whatever flatten and allow    *)
(* rules are given, no text node is detached, reordered or altered: the    *)
(* document-order sequence of text nodes below the context node is the     *)
(* same before and after the call.                                         *)
(***************************************************************************)
C29_TextBelowContextKept ==
  RulesOnlyCall =>
    /\ TextUnaltered
    /\ Leaves(world.nodes, call.ctx) = Leaves(pre.nodes, call.ctx)

\* sanitizeNode flattened its context node
ContextFlattened ==
  \E f \in EventsOf("flattened") : log[f].node = call.ctx

(***************************************************************************)
(* C29, amended: under the same conditions no text node is altered and     *)
(* the document-order sequence of the text nodes of the document is the    *)
(* same before and after the call; so is the sequence below the context    *)
(* node, unless sanitizeNode flattens the context node itself: then the    *)
(* context node ends without children and its text nodes are, in their     *)
(* order, below its former parent.                                         *)
(***************************************************************************)
C29_TextOrderKept ==
  RulesOnlyCall =>
    /\ TextUnaltered
    /\ Leaves(world.nodes, 1) = Leaves(pre.nodes, 1)
    /\ ~ContextFlattened =>
         Leaves(world.nodes, call.ctx) = Leaves(pre.nodes, call.ctx)
    /\ ContextFlattened =>
         /\ ~call.childrenOnly
         /\ Leaves(world.nodes, call.ctx) = <<>>
         /\ Leaves(world.nodes, pre.nodes[call.ctx].parent)
              = Leaves(pre.nodes, pre.nodes[call.ctx].parent)

\* a call that kept one element and flattened another one which had text
\* below it and an element sibling after it
C29_Witness ==
  /\ RulesOnlyCall
  /\ Allowed # {}
  /\ \E f \in EventsOf("flattened") :
       /\ Leaves(pre.nodes, log[f].node) # <<>>
       /\ log[f].node # call.ctx
  /\ Len(Leaves(pre.nodes, call.ctx)) >= 3

\* the decisions of sanitizeNode on a context node without parent that no
\* allow rule kept: a flatten rule matched or the default applied
ParentlessFlattenings ==
  {i \in Decisions :
     /\ ~call.childrenOnly /\ log[i].node = call.ctx
     /\ pre.nodes[call.ctx].parent = 0
     /\ log[i].info \in {"flatten", "default"}}

(***************************************************************************)
(* C30: sanitizeNode on a context node that has no parent and that no      *)
(* allow rule keeps (a flatten rule matches it or the default applies)     *)
(* leaves the node and its whole subtree unchanged: the flatten does       *)
(* nothing, no descendant is visited and no filter is invoked on a         *)
(* descendant.                                                             *)
(***************************************************************************)
C30_ParentlessFlattenIsNoOp ==
  \A i \in ParentlessFlattenings :
    /\ err = "none"
    /\ i = Len(log)
    /\ world.nodes = pre.nodes
    /\ Tree(world.nodes, call.ctx) = Tree(pre.nodes, call.ctx)
    /\ EventsOf("flattened") = {}
    /\ \A n \in Below(pre.nodes, call.ctx) :
         /\ ~Entered(n)
         /\ \A f \in EventsOf("filter") : log[f].node # n

\* no allow rule kept a context node without parent that has elements
\* below it for which the call had filters
C30_Witness ==
  /\ err = "none"
  /\ ParentlessFlattenings # {}
  /\ \E n \in Below(pre.nodes, call.ctx) :
       pre.nodes[n].type = "elem" /\ FiltersFor(n) # <<>>

====
